---- MODULE Spec2Model ----
(***************************************************************************)
(* A model of the node side of the in-memory data store: the write-ahead   *)
(* log (WriteAheadLog), the store (ConcurrentHashMap) and the node         *)
(* (DistributedNode) with its listener thread, its direct callers, its     *)
(* construction and destruction, and crash/restart on the same WAL path.   *)
(* Further specifications exercise two nodes with replication (ReplSpec),  *)
(* the ConsistentHashRing (RingSpec), the ConcurrentHashMap under          *)
(* concurrent callers (KvSpec) and the LockFreeRingBuffer (RbSpec).        *)
(*                                                                         *)
(* Text is modelled as what it is: a std::string is a sequence of symbols, *)
(* each symbol being either a whitespace character (" " or "\n") or a      *)
(* whitespace-free chunk of characters ("PUT", "a", "1").  The WAL file    *)
(* and a wire request are such sequences; operator>> is modelled by        *)
(* Tokens, which skips whitespace and reads up to the next whitespace.     *)
(***************************************************************************)
EXTENDS Integers, Sequences, FiniteSets, TLC

VARIABLES
    \* ---- DistributedNode (Spec, LiveSpec) ----
    mainPc,     \* position of the thread that owns the node object
    mainOp,     \* the put/removeKey call the owning thread is inside
    store,      \* dataStore_.kvStore_
    wal,        \* the contents of the WAL file (what was flushed)
    stop,       \* stop_
    serverPc,   \* position of serverThread_ in runServer/handleClient
    listening,  \* serverSock is bound and listening
    backlog,    \* connections completed by the kernel, not yet accepted
    cur,        \* the connection handleClient is serving
    srvOp,      \* the command handleClient parsed from the request
    sent,       \* what handleClient sent on the current connection
    loopback,   \* outcome of forceDisconnect's self-connection
    logged,     \* history: the records appended to the WAL, in file order
    wireMap,    \* history: key -> value of the wire PUT/REMOVE handled so far
    wireOnly,   \* history: the store was changed by wire commands only
    nConns,     \* client connections made to this incarnation
    restarts,   \* node objects constructed on this WAL path after the first
    \* ---- WriteAheadLog alone (WalSpec) ----
    wFile,      \* the contents of the WAL file
    wDirect,    \* a store the same operations are applied to directly
    wReplayed,  \* the store replay() filled, once it ran
    wLog,       \* history: the operations logged, in order
    wTorn,      \* the last record of the file is truncated
    wPc,        \* "log" while records are appended, "done" after replay
    \* ---- two nodes and replication (ReplSpec) ----
    rStore,     \* node -> dataStore_.kvStore_
    rWal,       \* node -> contents of its WAL file
    rUp,        \* node -> its listener has bound and listens
    rQueue,     \* node -> requests sent to its port, not yet received
    rSrvPc,     \* node -> position of its listener thread
    rSrvOp,     \* node -> the command its handleClient parsed
    rPc,        \* position of the coordinating thread inside doPut
    rOp,        \* the doPut call in progress: node, key, value
    rReplSent,  \* history: node -> replication messages it has sent
    rHandled,   \* history: node -> PUT commands its listener has handled
    rLast,      \* history: node -> key -> value of the last write applied
    rRaced,     \* history: a direct write met a replicated PUT of the same key
    rFailed,    \* history: replicateTo calls whose connect() failed
    rCalls,     \* doPut and removeKey calls made
    rStale,     \* the entry a peer kept from a replication whose owner removed the key
    \* ---- ConsistentHashRing (RingSpec) ----
    hashOf,     \* std::hash<std::string> on the strings in use
    numReplicas, \* numReplicas_
    ring,       \* ring_: hash value -> node name, on the points present
    ringAdded,  \* history: nodes added and not removed since
    ringRemoved, \* history: nodes removed at some time
    ringLastOp, \* history: the last addNode/removeNode call
    ringPrev,   \* history: key -> owner before the last addNode/removeNode
    ringGot,    \* the last getNode call: key and node returned
    ringSeen,   \* history: key -> node returned since the ring last changed
    ringOps,    \* addNode/removeNode calls made
    \* ---- ConcurrentHashMap under concurrent callers (KvSpec) ----
    kvMap,      \* kvStore_
    kvMtx,      \* mtx_: the thread holding it, or 0
    kvPc,       \* thread -> position inside put/get/remove
    kvCall,     \* thread -> the call it is inside
    kvRet,      \* thread -> what its last completed call returned
    kvHist,     \* history: the calls in the order they took the mutex
    kvOps,      \* calls started
    \* ---- LockFreeRingBuffer used by one thread (RbSpec) ----
    rbBuffer,   \* buffer_: slot -> item
    rbHead,     \* head_
    rbTail,     \* tail_
    rbRet,      \* the last call: its name, what it returned, for pop the item
    rbItems,    \* history: the items pushed and not yet popped, oldest first
    rbPushes,   \* history: successful pushes
    rbPops,     \* history: successful pops
    \* ---- LockFreeRingBuffer with a producer and a consumer (SpscSpec) ----
    pPc,        \* producer thread: position inside push
    pItem,      \* producer: the argument of push
    pHead,      \* producer: the local head
    pSeen,      \* producer: how many stores of tail_ its last load had seen
    pRet,       \* producer: what its last push returned
    cPc,        \* consumer thread: position inside pop
    cTail,      \* consumer: the local tail
    cSeen,      \* consumer: how many stores of head_ its last load had seen
    cItem,      \* consumer: the item read from the slot
    cRaced,     \* consumer: the slot was written while it was being read
    cRet,       \* consumer: what its last pop returned
    spPushed,   \* history: the items of the successful pushes, in order
    spPopped,   \* history: the items the successful pops returned, in order
    sPc,        \* a thread calling size(): position inside size
    sHead,      \* size(): the local h
    sMark,      \* history: pushes and pops done when h was loaded
    sRet,       \* what the last size() returned
    \* ---- ThreadPool (PoolSpec) ----
    tasks,      \* tasks_: the queued tasks, oldest first
    tpStop,     \* stop_
    queueMutex, \* queueMutex_: the thread holding it, or "none"
    waiting,    \* the workers blocked inside condition_.wait
    workerPc,   \* worker -> position in the worker loop
    workerTask, \* worker -> the task it took from the queue, or 0
    future,     \* task -> the shared state of its future
    taskKind,   \* task -> what its function does: return or throw
    runs,       \* history: task -> the workers that ran it, in order
    deliveries, \* history: task -> results and failures stored for it
    ownerPc,    \* the thread owning the pool: position in enqueue / ~ThreadPool
    ownerTask,  \* the task enqueue is submitting, or 0
    enqueued,   \* enqueue calls made
    poolAlive   \* FALSE once an exception left a thread (std::terminate)

nodeVars == <<mainPc, mainOp, store, wal, stop, serverPc, listening, backlog,
              cur, srvOp, sent, loopback, logged, wireMap, wireOnly, nConns, restarts>>
walVars  == <<wFile, wDirect, wReplayed, wLog, wTorn, wPc>>
replVars == <<rStore, rWal, rUp, rQueue, rSrvPc, rSrvOp, rPc, rOp, rReplSent,
              rHandled, rLast, rRaced, rFailed, rCalls, rStale>>
ringVars == <<hashOf, numReplicas, ring, ringAdded, ringRemoved, ringLastOp, ringPrev,
              ringGot, ringSeen, ringOps>>
kvVars   == <<kvMap, kvMtx, kvPc, kvCall, kvRet, kvHist, kvOps>>
rbVars   == <<rbBuffer, rbHead, rbTail, rbRet, rbItems, rbPushes, rbPops>>
szVars   == <<sPc, sHead, sMark, sRet>>
spVars   == <<pPc, pItem, pHead, pSeen, pRet, cPc, cTail, cSeen, cItem, cRaced,
              cRet, spPushed, spPopped, szVars>>
tpVars   == <<tasks, tpStop, queueMutex, waiting, workerPc, workerTask, future,
              taskKind, runs, deliveries, ownerPc, ownerTask, enqueued,
              poolAlive>>
auxVars  == <<replVars, ringVars, kvVars, rbVars, spVars, tpVars>>
vars     == <<nodeVars, walVars, auxVars>>

---------------------------------------------------------------------------
(* Bounds of the model *)
MaxOps      == 2    \* put/removeKey calls over the life of one WAL file
MaxConns    == 2    \* client connections per node incarnation
MaxRestarts == 1    \* constructions after the first on the same WAL path
MaxWalOps   == 2    \* records appended in WalSpec

---------------------------------------------------------------------------
(* Text *)
SP == " "
NL == "\n"
Whitespace == {SP, NL}

PUT       == <<"PUT">>
REMOVE    == <<"REMOVE">>
GET       == <<"GET">>
VALUE     == <<"VALUE">>
NOT_FOUND == <<"NOT_FOUND">>

\* The strings the callers and clients use.  The empty string and a string
\* with an embedded blank are std::strings like any other.
Keys       == { <<"a">>, <<"b">> }
Values     == { <<"1">>, <<"2">> }
OddStrings == { <<>>, <<"a", SP, "b">> }

\* A string that survives "stream << s; stream >> t": one whitespace-free
\* token.
IsToken(s) == s # <<>> /\ \A i \in 1..Len(s) : s[i] \notin Whitespace

---------------------------------------------------------------------------
(* std::istream >> std::string *)

\* The maximal whitespace-free prefix of s.
RECURSIVE ReadToken(_)
ReadToken(s) ==
    IF s = <<>> \/ Head(s) \in Whitespace THEN <<>>
    ELSE <<Head(s)>> \o ReadToken(Tail(s))

\* What successive "in >> tok" extractions read from a text: each skips the
\* whitespace before it and reads up to the next whitespace.
RECURSIVE Tokens(_)
Tokens(s) ==
    IF s = <<>> THEN <<>>
    ELSE IF Head(s) \in Whitespace THEN Tokens(Tail(s))
    ELSE LET t == ReadToken(s)
         IN  <<t>> \o Tokens(SubSeq(s, Len(t) + 1, Len(s)))

\* The i-th extraction from a stream holding the tokens toks.  Past the
\* end of input the extraction fails and its target string stays empty.
Extracted(toks, i) == IF i <= Len(toks) THEN toks[i] ELSE <<>>

\* The stream after n extractions; once one has failed, all later ones fail.
After(toks, n) == IF n >= Len(toks) THEN <<>> ELSE SubSeq(toks, n + 1, Len(toks))

---------------------------------------------------------------------------
(* ConcurrentHashMap: a function from the keys present to their values *)

EmptyStore == [k \in {} |-> <<>>]

StorePut(st, k, v) == [x \in (DOMAIN st) \cup {k} |-> IF x = k THEN v ELSE st[x]]

StoreRemove(st, k) == [x \in (DOMAIN st) \ {k} |-> st[x]]

StoreHas(st, k) == k \in DOMAIN st

---------------------------------------------------------------------------
(* WriteAheadLog *)

\* walStream_ << "PUT " << key << " " << value << "\n"
PutRecord(k, v) == <<"PUT", SP>> \o k \o <<SP>> \o v \o <<NL>>

\* walStream_ << "REMOVE " << key << "\n"
RemoveRecord(k) == <<"REMOVE", SP>> \o k \o <<NL>>

\* logPut / logRemove: write and flush under mtx_; the file grows by the record.
LogPut(file, k, v) == file \o PutRecord(k, v)

LogRemove(file, k) == file \o RemoveRecord(k)

\* replay(): the loop over "in >> cmd", on the tokens still unread.  PUT
\* extracts key and value and puts them whether or not the extractions
\* succeeded; REMOVE likewise; any other token is skipped.
RECURSIVE ReplayFrom(_, _)
ReplayFrom(toks, st) ==
    IF toks = <<>> THEN st
    ELSE IF Head(toks) = PUT
         THEN ReplayFrom(After(toks, 3),
                         StorePut(st, Extracted(toks, 2), Extracted(toks, 3)))
    ELSE IF Head(toks) = REMOVE
         THEN ReplayFrom(After(toks, 2), StoreRemove(st, Extracted(toks, 2)))
    ELSE ReplayFrom(After(toks, 1), st)

\* WriteAheadLog::replay(store) on a file with the given contents.
Replay(file, st) == ReplayFrom(Tokens(file), st)

---------------------------------------------------------------------------
(* Operations and connections *)

NoOp == [op |-> "NONE", key |-> <<>>, val |-> <<>>]
PutOp(k, v) == [op |-> "PUT", key |-> k, val |-> v]
RemoveOp(k) == [op |-> "REMOVE", key |-> k, val |-> <<>>]

\* An operation whose strings are single tokens.
PlainOp(o) == IsToken(o.key) /\ (o.op = "PUT" => IsToken(o.val))

\* A connection: the bytes its peer sent, or a peer that has sent nothing
\* yet ("silent"), or a peer that closed without sending ("closed").
NoConn      == [state |-> "none",   data |-> <<>>]
SilentConn  == [state |-> "silent", data |-> <<>>]
ClosedConn  == [state |-> "closed", data |-> <<>>]
DataConn(d) == [state |-> "data",   data |-> d]

\* The requests clients send.  The first three shapes are the protocol's;
\* the others are malformed: an argument is missing or the leading token is
\* not a command.
ReqPut(k, v) == <<"PUT", SP>> \o k \o <<SP>> \o v \o <<NL>>
ReqRemove(k) == <<"REMOVE", SP>> \o k \o <<NL>>
ReqGet(k)    == <<"GET", SP>> \o k \o <<NL>>

GoodRequests ==
    {ReqPut(k, v) : k \in Keys, v \in Values}
        \cup {ReqRemove(k) : k \in Keys} \cup {ReqGet(k) : k \in Keys}

BadRequests ==
    { <<"PUT", SP, "a", NL>>, <<"PUT", NL>>, <<"REMOVE", NL>>, <<"GET", NL>>,
      <<"FOO", SP, "a", NL>> }

Requests == GoodRequests \cup BadRequests

\* What handleClient's extractions make of a request: the command token and
\* the key and value, each empty when its extraction failed.
ParseRequest(req) ==
    LET toks == Tokens(req)
    IN  [cmd  |-> Extracted(toks, 1),
         key  |-> Extracted(toks, 2),
         val  |-> Extracted(toks, 3),
         nkey |-> Len(toks) >= 2,
         nval |-> Len(toks) >= 3]

\* A request is malformed when its leading token is no command or when the
\* command lacks its key or its value.
Malformed(req) ==
    LET p == ParseRequest(req)
    IN  \/ p.cmd \notin {PUT, REMOVE, GET}
        \/ ~p.nkey
        \/ p.cmd = PUT /\ ~p.nval

Mutating(req) == ParseRequest(req).cmd \in {PUT, REMOVE}

---------------------------------------------------------------------------
(* The components that a specification does not exercise stay as they are  *)
(* when nothing was constructed.                                           *)

ReplOff ==
    /\ rStore = <<>> /\ rWal = <<>> /\ rUp = <<>> /\ rQueue = <<>>
    /\ rSrvPc = <<>> /\ rSrvOp = <<>> /\ rPc = "off" /\ rOp = <<>>
    /\ rReplSent = <<>> /\ rHandled = <<>> /\ rLast = <<>>
    /\ rRaced = FALSE /\ rFailed = 0 /\ rCalls = 0 /\ rStale = <<>>

RingOff ==
    /\ hashOf = <<>> /\ numReplicas = 0 /\ ring = <<>> /\ ringAdded = {}
    /\ ringRemoved = {}
    /\ ringLastOp = <<>> /\ ringPrev = <<>> /\ ringGot = <<>>
    /\ ringSeen = <<>> /\ ringOps = 0

KvOff ==
    /\ kvMap = <<>> /\ kvMtx = 0 /\ kvPc = <<>> /\ kvCall = <<>>
    /\ kvRet = <<>> /\ kvHist = <<>> /\ kvOps = 0

RbOff ==
    /\ rbBuffer = <<>> /\ rbHead = 0 /\ rbTail = 0 /\ rbRet = <<>>
    /\ rbItems = <<>> /\ rbPushes = 0 /\ rbPops = 0

SpOff ==
    /\ pPc = "off" /\ pItem = 0 /\ pHead = 0 /\ pSeen = 0 /\ pRet = <<>>
    /\ cPc = "off" /\ cTail = 0 /\ cSeen = 0 /\ cItem = 0 /\ cRaced = FALSE
    /\ cRet = <<>> /\ spPushed = <<>> /\ spPopped = <<>>
    /\ sPc = "off" /\ sHead = 0 /\ sMark = <<>> /\ sRet = <<>>

TpOff ==
    /\ tasks = <<>> /\ tpStop = FALSE /\ queueMutex = "none" /\ waiting = {}
    /\ workerPc = <<>> /\ workerTask = <<>> /\ future = <<>>
    /\ taskKind = <<>> /\ runs = <<>> /\ deliveries = <<>>
    /\ ownerPc = "off" /\ ownerTask = 0 /\ enqueued = 0 /\ poolAlive = TRUE

AuxOff == ReplOff /\ RingOff /\ KvOff /\ RbOff /\ SpOff /\ TpOff

---------------------------------------------------------------------------
(* WalSpec: one WriteAheadLog on an initially empty file.  Operations are  *)
(* logged and, beside that, applied directly to a store; in the end the    *)
(* file is replayed into a fresh store (TEST(WALTest, Replay)).  A crash   *)
(* may leave the record being written torn: a prefix holding fewer tokens  *)
(* than the operation requires.                                            *)

\* The node's variables while only the WAL is exercised.
NodeOff ==
    /\ mainPc = "off" /\ mainOp = NoOp /\ store = EmptyStore /\ wal = <<>>
    /\ stop = FALSE /\ serverPc = "off" /\ listening = FALSE /\ backlog = <<>>
    /\ cur = NoConn /\ srvOp = NoOp /\ sent = <<>> /\ loopback = "none"
    /\ logged = <<>> /\ wireMap = EmptyStore /\ wireOnly = TRUE
    /\ nConns = 0 /\ restarts = 0

WalStrings == Keys \cup Values \cup OddStrings

WalInit ==
    /\ wFile = <<>> /\ wDirect = EmptyStore /\ wReplayed = EmptyStore
    /\ wLog = <<>> /\ wTorn = FALSE /\ wPc = "log"
    /\ NodeOff /\ AuxOff

WalLogPut(k, v) ==
    /\ wPc = "log" /\ ~wTorn /\ Len(wLog) < MaxWalOps
    /\ wFile' = LogPut(wFile, k, v)
    /\ wDirect' = StorePut(wDirect, k, v)
    /\ wLog' = Append(wLog, PutOp(k, v))
    /\ UNCHANGED <<wReplayed, wTorn, wPc, nodeVars, auxVars>>

WalLogRemove(k) ==
    /\ wPc = "log" /\ ~wTorn /\ Len(wLog) < MaxWalOps
    /\ wFile' = LogRemove(wFile, k)
    /\ wDirect' = StoreRemove(wDirect, k)
    /\ wLog' = Append(wLog, RemoveOp(k))
    /\ UNCHANGED <<wReplayed, wTorn, wPc, nodeVars, auxVars>>

\* The prefixes of a record that end before its last token.
TornPrefixes(rec) ==
    {SubSeq(rec, 1, n) : n \in 1..(Len(rec) - 2)}

\* A crash while a record of a plain operation is being written leaves a
\* torn prefix of it at the end of the file; nothing is appended after it.
WalTornWrite(rec, t) ==
    /\ wPc = "log" /\ ~wTorn
    /\ t \in TornPrefixes(rec)
    /\ wFile' = wFile \o t
    /\ wTorn' = TRUE
    /\ UNCHANGED <<wDirect, wReplayed, wLog, wPc, nodeVars, auxVars>>

\* WriteAheadLog::replay into a fresh ConcurrentHashMap.
WalReplay ==
    /\ wPc = "log"
    /\ wReplayed' = Replay(wFile, EmptyStore)
    /\ wPc' = "done"
    /\ UNCHANGED <<wFile, wDirect, wLog, wTorn, nodeVars, auxVars>>

WalNext ==
    \/ \E k \in WalStrings, v \in WalStrings : WalLogPut(k, v)
    \/ \E k \in WalStrings : WalLogRemove(k)
    \/ \E k \in Keys, v \in Values : \E t \in TornPrefixes(PutRecord(k, v)) :
            WalTornWrite(PutRecord(k, v), t)
    \/ \E k \in Keys : \E t \in TornPrefixes(RemoveRecord(k)) :
            WalTornWrite(RemoveRecord(k), t)
    \/ WalReplay

WalSpec == WalInit /\ [][WalNext]_vars

\* Every operation logged so far is plain.
WalAllPlain == \A i \in 1..Len(wLog) : PlainOp(wLog[i])

(* C1: WAL round-trip.  For any sequence of PUT and REMOVE operations,     *)
(* applying them directly to an empty store and logging them with          *)
(* logPut/logRemove and then replaying the file into a fresh store give    *)
(* the same store.                                                         *)
C1_RoundTrip ==
    (wPc = "done" /\ ~wTorn) => wReplayed = wDirect

(* C6: a truncated trailing record is tolerated.  When the complete        *)
(* records are followed by a last record with fewer tokens than its        *)
(* operation requires, replay yields the store of the complete records.    *)
C6_TruncatedTailIgnored ==
    (wPc = "done" /\ wTorn /\ WalAllPlain) => wReplayed = wDirect

---------------------------------------------------------------------------
(* Spec: one DistributedNode on one WAL path.  The owning thread constructs *)
(* the node, calls put/removeKey on it and destroys it; serverThread_ runs  *)
(* runServer; clients connect to the port; the process may crash at any     *)
(* point and a node may be constructed again on the same WAL path.          *)

\* The WriteAheadLog's variables while the node is exercised.
WalOff ==
    /\ wFile = <<>> /\ wDirect = EmptyStore /\ wReplayed = EmptyStore
    /\ wLog = <<>> /\ wTorn = FALSE /\ wPc = "off"

\* Calls that have changed the store and not yet appended their record.
InFlight ==
    (IF mainPc \in {"put_log", "remove_log"} THEN 1 ELSE 0)
        + (IF serverPc \in {"put", "put_log", "remove", "remove_log"} THEN 1 ELSE 0)

\* Mutating requests that have been sent and not yet parsed.
Queued ==
    Cardinality({i \in 1..Len(backlog) :
                    backlog[i].state = "data" /\ Mutating(backlog[i].data)})
        + (IF serverPc = "recv" /\ cur.state = "data" /\ Mutating(cur.data)
           THEN 1 ELSE 0)

\* The model stops issuing mutations once MaxOps of them are on their way.
OpsLeft == Len(logged) + InFlight + Queued < MaxOps

CanSend(req) == Mutating(req) => OpsLeft

\* The state a process starts in: nothing in memory, no thread, no socket.
FreshProcess ==
    /\ mainOp' = NoOp /\ store' = EmptyStore /\ stop' = FALSE
    /\ serverPc' = "notstarted" /\ listening' = FALSE /\ backlog' = <<>>
    /\ cur' = NoConn /\ srvOp' = NoOp /\ sent' = <<>> /\ loopback' = "none"
    /\ wireMap' = EmptyStore /\ nConns' = 0

Init ==
    /\ mainPc = "ctor_replay" /\ mainOp = NoOp /\ store = EmptyStore
    /\ wal = <<>> /\ stop = FALSE /\ serverPc = "notstarted"
    /\ listening = FALSE /\ backlog = <<>> /\ cur = NoConn /\ srvOp = NoOp
    /\ sent = <<>> /\ loopback = "none" /\ logged = <<>>
    /\ wireMap = EmptyStore /\ wireOnly = TRUE /\ nConns = 0 /\ restarts = 0
    /\ WalOff /\ AuxOff

(* ---- the owning thread ---- *)

\* Faulty variant: the constructor goes on to start the thread without replaying.
CtorReplay_Skipped ==
    /\ mainPc = "ctor_replay"
    /\ mainPc' = "ctor_spawn"
    /\ UNCHANGED <<mainOp, store, wal, stop, serverPc, listening, backlog, cur,
                   srvOp, sent, loopback, logged, wireMap, wireOnly, nConns,
                   restarts, walVars, auxVars>>

\* DistributedNode::DistributedNode, first statement: wal_.replay(dataStore_).
CtorReplay ==
    /\ mainPc = "ctor_replay"
    /\ store' = Replay(wal, store)
    /\ mainPc' = "ctor_spawn"
    /\ UNCHANGED <<mainOp, wal, stop, serverPc, listening, backlog, cur, srvOp,
                   sent, loopback, logged, wireMap, wireOnly, nConns, restarts,
                   walVars, auxVars>>

\* DistributedNode::DistributedNode, second statement: the server thread starts.
CtorSpawn ==
    /\ mainPc = "ctor_spawn"
    /\ serverPc' = "start"
    /\ mainPc' = "idle"
    /\ UNCHANGED <<mainOp, store, wal, stop, listening, backlog, cur, srvOp,
                   sent, loopback, logged, wireMap, wireOnly, nConns, restarts,
                   walVars, auxVars>>

\* Faulty variant: put appends the record first and leaves the store for later.
Put_LogsFirst(k, v) ==
    /\ mainPc = "idle" /\ OpsLeft
    /\ wal' = LogPut(wal, k, v)
    /\ mainOp' = PutOp(k, v)
    /\ mainPc' = "put_log"
    /\ wireOnly' = FALSE
    /\ UNCHANGED <<store, stop, serverPc, listening, backlog, cur, srvOp, sent,
                   loopback, logged, wireMap, nConns, restarts, walVars, auxVars>>

\* DistributedNode::put, first statement: dataStore_.put(key, value).
Put(k, v) ==
    /\ mainPc = "idle" /\ OpsLeft
    /\ store' = StorePut(store, k, v)
    /\ mainOp' = PutOp(k, v)
    /\ mainPc' = "put_log"
    /\ wireOnly' = FALSE
    /\ UNCHANGED <<wal, stop, serverPc, listening, backlog, cur, srvOp, sent,
                   loopback, logged, wireMap, nConns, restarts, walVars, auxVars>>

\* DistributedNode::put, second statement: wal_.logPut(key, value); return.
PutLog ==
    /\ mainPc = "put_log"
    /\ wal' = LogPut(wal, mainOp.key, mainOp.val)
    /\ logged' = Append(logged, mainOp)
    /\ mainOp' = NoOp
    /\ mainPc' = "idle"
    /\ UNCHANGED <<store, stop, serverPc, listening, backlog, cur, srvOp, sent,
                   loopback, wireMap, wireOnly, nConns, restarts, walVars, auxVars>>

\* DistributedNode::removeKey, first statement: dataStore_.remove(key).
RemoveKey(k) ==
    /\ mainPc = "idle" /\ OpsLeft
    /\ store' = StoreRemove(store, k)
    /\ mainOp' = RemoveOp(k)
    /\ mainPc' = "remove_log"
    /\ wireOnly' = FALSE
    /\ UNCHANGED <<wal, stop, serverPc, listening, backlog, cur, srvOp, sent,
                   loopback, logged, wireMap, nConns, restarts, walVars, auxVars>>

\* DistributedNode::removeKey, second statement: wal_.logRemove(key); return.
RemoveLog ==
    /\ mainPc = "remove_log"
    /\ wal' = LogRemove(wal, mainOp.key)
    /\ logged' = Append(logged, mainOp)
    /\ mainOp' = NoOp
    /\ mainPc' = "idle"
    /\ UNCHANGED <<store, stop, serverPc, listening, backlog, cur, srvOp, sent,
                   loopback, wireMap, wireOnly, nConns, restarts, walVars, auxVars>>

\* ~DistributedNode, first statement: stop_ = true.
DtorStop ==
    /\ mainPc = "idle"
    /\ stop' = TRUE
    /\ mainPc' = "dtor_connect"
    /\ UNCHANGED <<mainOp, store, wal, serverPc, listening, backlog, cur, srvOp,
                   sent, loopback, logged, wireMap, wireOnly, nConns, restarts,
                   walVars, auxVars>>

\* forceDisconnect: socket(), connect() to the node's own port, close().
\* The connection reaches the backlog when the port is listening and is
\* refused when it is not; its peer has closed without sending.
DtorConnect ==
    /\ mainPc = "dtor_connect"
    /\ IF listening
       THEN backlog' = Append(backlog, ClosedConn) /\ loopback' = "connected"
       ELSE backlog' = backlog /\ loopback' = "refused"
    /\ mainPc' = "dtor_join"
    /\ UNCHANGED <<mainOp, store, wal, stop, serverPc, listening, cur, srvOp,
                   sent, logged, wireMap, wireOnly, nConns, restarts, walVars, auxVars>>

\* forceDisconnect when socket() fails: it returns without connecting.
DtorNoSocket ==
    /\ mainPc = "dtor_connect"
    /\ loopback' = "nosocket"
    /\ mainPc' = "dtor_join"
    /\ UNCHANGED <<mainOp, store, wal, stop, serverPc, listening, backlog, cur,
                   srvOp, sent, logged, wireMap, wireOnly, nConns, restarts,
                   walVars, auxVars>>

\* Faulty variant: the destructor returns without waiting for the thread (detach).
DtorJoin_NoWait ==
    /\ mainPc = "dtor_join"
    /\ mainPc' = "destroyed"
    /\ UNCHANGED <<mainOp, store, wal, stop, serverPc, listening, backlog, cur,
                   srvOp, sent, loopback, logged, wireMap, wireOnly, nConns,
                   restarts, walVars, auxVars>>

\* ~DistributedNode, last statement: serverThread_.join() returns once
\* runServer has returned.
DtorJoin ==
    /\ mainPc = "dtor_join"
    /\ serverPc = "exited"
    /\ mainPc' = "destroyed"
    /\ UNCHANGED <<mainOp, store, wal, stop, serverPc, listening, backlog, cur,
                   srvOp, sent, loopback, logged, wireMap, wireOnly, nConns,
                   restarts, walVars, auxVars>>

(* ---- the process ---- *)

\* The process dies: memory, threads and sockets are gone, the file stays.
ProcessDies ==
    /\ FreshProcess
    /\ mainPc' = "crashed"
    /\ wireOnly' = FALSE
    /\ UNCHANGED <<wal, logged, restarts, walVars, auxVars>>

\* A crash at any point of a live process.
Crash ==
    /\ mainPc \notin {"crashed", "destroyed"}
    /\ ProcessDies

\* Faulty variant: the constructor opens the WAL file truncating it.
Restart_Truncates ==
    /\ mainPc \in {"crashed", "destroyed"}
    /\ restarts < MaxRestarts
    /\ FreshProcess
    /\ mainPc' = "ctor_replay"
    /\ wal' = <<>>
    /\ wireOnly' = TRUE
    /\ restarts' = restarts + 1
    /\ UNCHANGED <<logged, walVars, auxVars>>

\* A node is constructed again on the same WAL path: the member
\* initialisers open the file for append and leave the store empty.
Restart ==
    /\ mainPc \in {"crashed", "destroyed"}
    /\ restarts < MaxRestarts
    /\ FreshProcess
    /\ mainPc' = "ctor_replay"
    /\ wireOnly' = (wal = <<>>)
    /\ restarts' = restarts + 1
    /\ UNCHANGED <<wal, logged, walVars, auxVars>>

(* ---- serverThread_: runServer and handleClient ---- *)

\* runServer leaves its loop and closes the listening socket; connections
\* still waiting in the backlog are dropped with it.
ServerExits ==
    /\ serverPc' = "exited"
    /\ listening' = FALSE
    /\ backlog' = <<>>

\* socket, setsockopt, bind and listen all succeed.
Listen ==
    /\ serverPc = "start"
    /\ listening' = TRUE
    /\ serverPc' = "loop"
    /\ UNCHANGED <<mainPc, mainOp, store, wal, stop, backlog, cur, srvOp, sent,
                   loopback, logged, wireMap, wireOnly, nConns, restarts,
                   walVars, auxVars>>

\* socket, bind or listen fails: CHECK_RET prints and calls std::exit.
ListenFail ==
    /\ serverPc = "start"
    /\ ProcessDies

\* while (!stop_)
LoopCheck ==
    /\ serverPc = "loop"
    /\ IF stop
       THEN ServerExits
       ELSE serverPc' = "accept" /\ UNCHANGED <<listening, backlog>>
    /\ UNCHANGED <<mainPc, mainOp, store, wal, stop, cur, srvOp, sent, loopback,
                   logged, wireMap, wireOnly, nConns, restarts, walVars, auxVars>>

\* accept() returns the oldest connection of the backlog; it blocks while
\* the backlog is empty.
Accept ==
    /\ serverPc = "accept"
    /\ backlog # <<>>
    /\ cur' = Head(backlog)
    /\ backlog' = Tail(backlog)
    /\ sent' = <<>>
    /\ serverPc' = "recv"
    /\ UNCHANGED <<mainPc, mainOp, store, wal, stop, listening, srvOp, loopback,
                   logged, wireMap, wireOnly, nConns, restarts, walVars, auxVars>>

\* accept() fails (clientSock < 0): break when stop_ is set, else continue.
AcceptFail ==
    /\ serverPc = "accept"
    /\ IF stop
       THEN ServerExits
       ELSE serverPc' = "loop" /\ UNCHANGED <<listening, backlog>>
    /\ UNCHANGED <<mainPc, mainOp, store, wal, stop, cur, srvOp, sent, loopback,
                   logged, wireMap, wireOnly, nConns, restarts, walVars, auxVars>>

\* handleClient: recv() blocks until the peer has sent or closed; with
\* bytesRead > 0 the request is parsed and dispatched on its first token.
Recv ==
    /\ serverPc = "recv"
    /\ cur.state \in {"data", "closed"}
    /\ LET p == ParseRequest(cur.data)
       IN  IF cur.state = "closed" THEN serverPc' = "close" /\ srvOp' = NoOp
           ELSE IF p.cmd = PUT
                THEN serverPc' = "put" /\ srvOp' = PutOp(p.key, p.val)
           ELSE IF p.cmd = REMOVE
                THEN serverPc' = "remove" /\ srvOp' = RemoveOp(p.key)
           ELSE IF p.cmd = GET
                THEN serverPc' = "get" /\ srvOp' = [op |-> "GET", key |-> p.key, val |-> <<>>]
           ELSE serverPc' = "close" /\ srvOp' = NoOp
    /\ UNCHANGED <<mainPc, mainOp, store, wal, stop, listening, backlog, cur,
                   sent, loopback, logged, wireMap, wireOnly, nConns, restarts,
                   walVars, auxVars>>

\* handleClient -> put(key, value), first statement: dataStore_.put.
SrvPut ==
    /\ serverPc = "put"
    /\ store' = StorePut(store, srvOp.key, srvOp.val)
    /\ wireMap' = IF Malformed(cur.data) THEN wireMap
                  ELSE StorePut(wireMap, srvOp.key, srvOp.val)
    /\ serverPc' = "put_log"
    /\ UNCHANGED <<mainPc, mainOp, wal, stop, listening, backlog, cur, srvOp,
                   sent, loopback, logged, wireOnly, nConns, restarts, walVars, auxVars>>

\* handleClient -> put(key, value), second statement: wal_.logPut.
SrvPutLog ==
    /\ serverPc = "put_log"
    /\ wal' = LogPut(wal, srvOp.key, srvOp.val)
    /\ logged' = Append(logged, srvOp)
    /\ serverPc' = "close"
    /\ UNCHANGED <<mainPc, mainOp, store, stop, listening, backlog, cur, srvOp,
                   sent, loopback, wireMap, wireOnly, nConns, restarts, walVars, auxVars>>

\* handleClient -> removeKey(key), first statement: dataStore_.remove.
SrvRemove ==
    /\ serverPc = "remove"
    /\ store' = StoreRemove(store, srvOp.key)
    /\ wireMap' = IF Malformed(cur.data) THEN wireMap
                  ELSE StoreRemove(wireMap, srvOp.key)
    /\ serverPc' = "remove_log"
    /\ UNCHANGED <<mainPc, mainOp, wal, stop, listening, backlog, cur, srvOp,
                   sent, loopback, logged, wireOnly, nConns, restarts, walVars, auxVars>>

\* handleClient -> removeKey(key), second statement: wal_.logRemove.
SrvRemoveLog ==
    /\ serverPc = "remove_log"
    /\ wal' = LogRemove(wal, srvOp.key)
    /\ logged' = Append(logged, srvOp)
    /\ serverPc' = "close"
    /\ UNCHANGED <<mainPc, mainOp, store, stop, listening, backlog, cur, srvOp,
                   sent, loopback, wireMap, wireOnly, nConns, restarts, walVars, auxVars>>

\* The response to GET: "VALUE " + val + "\n", or "NOT_FOUND\n".
Response(st, k) ==
    IF StoreHas(st, k) THEN <<"VALUE", SP>> \o st[k] \o <<NL>>
    ELSE <<"NOT_FOUND", NL>>

\* handleClient, GET: get(key, val) and send the response.
SrvGet ==
    /\ serverPc = "get"
    /\ sent' = Response(store, srvOp.key)
    /\ serverPc' = "close"
    /\ UNCHANGED <<mainPc, mainOp, store, wal, stop, listening, backlog, cur,
                   srvOp, loopback, logged, wireMap, wireOnly, nConns, restarts,
                   walVars, auxVars>>

\* Faulty variant: handleClient keeps the connection and reads from it again.
Close_KeepsConnection ==
    /\ serverPc = "close"
    /\ srvOp' = NoOp
    /\ sent' = <<>>
    /\ serverPc' = "recv"
    /\ UNCHANGED <<mainPc, mainOp, store, wal, stop, listening, backlog, cur,
                   loopback, logged, wireMap, wireOnly, nConns, restarts,
                   walVars, auxVars>>

\* handleClient, last statement: close(clientSock); back to the loop.
Close ==
    /\ serverPc = "close"
    /\ cur' = NoConn
    /\ srvOp' = NoOp
    /\ sent' = <<>>
    /\ serverPc' = "loop"
    /\ UNCHANGED <<mainPc, mainOp, store, wal, stop, listening, backlog,
                   loopback, logged, wireMap, wireOnly, nConns, restarts,
                   walVars, auxVars>>

(* ---- clients ---- *)

\* A client connects to the listening port, having sent its request at
\* once, or nothing yet, or having closed already.
ClientConnect(c) ==
    /\ listening
    /\ nConns < MaxConns
    /\ c.state = "data" => CanSend(c.data)
    /\ backlog' = Append(backlog, c)
    /\ nConns' = nConns + 1
    /\ UNCHANGED <<mainPc, mainOp, store, wal, stop, serverPc, listening, cur,
                   srvOp, sent, loopback, logged, wireMap, wireOnly, restarts,
                   walVars, auxVars>>

\* The silent peer of the connection being served sends its request.
ClientSend(req) ==
    /\ serverPc = "recv" /\ cur.state = "silent"
    /\ CanSend(req)
    /\ cur' = DataConn(req)
    /\ UNCHANGED <<mainPc, mainOp, store, wal, stop, serverPc, listening,
                   backlog, srvOp, sent, loopback, logged, wireMap, wireOnly,
                   nConns, restarts, walVars, auxVars>>

\* The silent peer of the connection being served closes it.
ClientHangUp ==
    /\ serverPc = "recv" /\ cur.state = "silent"
    /\ cur' = ClosedConn
    /\ UNCHANGED <<mainPc, mainOp, store, wal, stop, serverPc, listening,
                   backlog, srvOp, sent, loopback, logged, wireMap, wireOnly,
                   nConns, restarts, walVars, auxVars>>

---------------------------------------------------------------------------
CallStrings == Keys \cup {<<>>}
CallValues  == Values \cup {<<>>}

OwnerStep ==
    \/ CtorReplay \/ CtorSpawn \/ PutLog \/ RemoveLog
    \/ DtorConnect \/ DtorJoin

ListenerStep ==
    \/ Listen \/ LoopCheck \/ Accept \/ Recv
    \/ SrvPut \/ SrvPutLog \/ SrvRemove \/ SrvRemoveLog \/ SrvGet \/ Close

Next ==
    \/ OwnerStep
    \/ ListenerStep
    \/ \E k \in CallStrings, v \in CallValues : Put(k, v)
    \/ \E k \in CallStrings : RemoveKey(k)
    \/ DtorStop
    \/ DtorNoSocket
    \/ ListenFail
    \/ AcceptFail
    \/ \E r \in Requests : ClientConnect(DataConn(r))
    \/ ClientConnect(SilentConn)
    \/ ClientConnect(ClosedConn)
    \/ \E r \in Requests : ClientSend(r)
    \/ ClientHangUp
    \/ Crash
    \/ Restart

Spec == Init /\ [][Next]_vars

\* LiveSpec: the same node under the scheduling a live process has, with
\* fewer inputs.  The threads keep running: a thread that can take its next
\* step eventually takes it.  Nothing obliges a client to connect, to send
\* or to close, the owner to call put or to destroy the node, or a system
\* call to fail.  The process does not die: a dead process has no shutdown
\* to complete.
LiveRequests ==
    { ReqPut(<<"a">>, <<"1">>), ReqRemove(<<"a">>), ReqGet(<<"a">>) }

LiveNext ==
    \/ OwnerStep
    \/ ListenerStep
    \/ Put(<<"a">>, <<"2">>)
    \/ RemoveKey(<<"a">>)
    \/ DtorStop
    \/ DtorNoSocket
    \/ AcceptFail
    \/ \E r \in LiveRequests : ClientConnect(DataConn(r))
    \/ ClientConnect(SilentConn)
    \/ ClientConnect(ClosedConn)
    \/ \E r \in LiveRequests : ClientSend(r)
    \/ ClientHangUp

LiveSpec ==
    Init /\ [][LiveNext]_vars /\ WF_vars(OwnerStep) /\ WF_vars(ListenerStep)

---------------------------------------------------------------------------
(* Properties of the node *)

\* The node object exists and is fully constructed or being destroyed.
NodeAlive == mainPc \in {"ctor_spawn", "idle", "dtor_connect", "dtor_join"}

\* Every record appended to the WAL so far is of a plain operation.
AllPlain == \A i \in 1..Len(logged) : PlainOp(logged[i])

\* What a store shows of an operation once it was applied last on its key.
Reflects(st, o) ==
    IF o.op = "PUT" THEN StoreHas(st, o.key) /\ st[o.key] = o.val
    ELSE ~StoreHas(st, o.key)

(* C2: the WAL holds the mutations in the order in which they were applied *)
(* to the store.  Once every put/removeKey call (of the listener thread    *)
(* and of direct callers) has returned, replaying the WAL into a fresh     *)
(* store gives the node's store.  Stated for plain keys and values.        *)
C2_WalOrderIsStoreOrder ==
    (NodeAlive /\ InFlight = 0 /\ AllPlain) => Replay(wal, EmptyStore) = store

(* C3: durability of completed writes.  After a restart on the same WAL,   *)
(* the store reflects every put/removeKey that had returned (its record    *)
(* is in the WAL), unless a later logged operation is on the same key.     *)
(* Stated for operations with plain keys and values.                       *)
C3_CompletedWritesSurvive ==
    (restarts > 0 /\ mainPc = "ctor_spawn") =>
        \A i \in 1..Len(logged) :
            (/\ PlainOp(logged[i])
             /\ \A j \in (i + 1)..Len(logged) : logged[j].key # logged[i].key)
                => Reflects(store, logged[i])

(* C4: replay completes before the listener starts.  At the step that      *)
(* starts the listener thread the store holds the replay of the whole      *)
(* existing WAL, so no wire command is handled against an older store.     *)
C4_ReplayBeforeListener ==
    [][(serverPc = "notstarted" /\ serverPc' # "notstarted")
            => store = Replay(wal, EmptyStore)]_vars

\* A listener is serving a GET on a store that replay filled from a WAL
\* written by an earlier incarnation.
C4_Witness ==
    /\ restarts > 0 /\ serverPc = "get" /\ mainPc = "idle"
    /\ store # EmptyStore /\ store = Replay(wal, EmptyStore)

(* C5: write-ahead ordering.  In every state each entry visible in the     *)
(* store already has its PUT record in the log.  Stated for plain keys     *)
(* and values.                                                             *)
C5_LoggedBeforeApplied ==
    (NodeAlive /\ AllPlain) =>
        \A k \in DOMAIN store :
            (IsToken(k) /\ IsToken(store[k]))
                => \E i \in 1..Len(logged) : logged[i] = PutOp(k, store[k])

(* C7: wire responses.  On a node whose store is changed by wire commands  *)
(* only, GET k is answered VALUE v with v of the most recently handled     *)
(* PUT k v not followed by a REMOVE k, and NOT_FOUND otherwise; any other  *)
(* request gets no response.                                               *)
C7_WireResponses ==
    (serverPc = "close" /\ cur.state = "data" /\ wireOnly) =>
        LET p == ParseRequest(cur.data)
        IN  IF p.cmd = GET
            THEN ~Malformed(cur.data) => sent = Response(wireMap, p.key)
            ELSE sent = <<>>

\* The steps of handleClient after the request was parsed.
HandleStep ==
    SrvPut \/ SrvPutLog \/ SrvRemove \/ SrvRemoveLog \/ SrvGet \/ Close

(* C8: a malformed command is ignored.  While the listener handles a       *)
(* request whose leading token is no command, or which lacks its key or    *)
(* value, none of its steps changes the store or the WAL.                  *)
C8_MalformedIgnored ==
    [][(HandleStep /\ cur.state = "data" /\ Malformed(cur.data))
            => (store' = store /\ wal' = wal)]_vars

\* forceDisconnect got its socket and called connect().
LoopbackAttempted == loopback \in {"connected", "refused"}

\* The listener is inside recv() on a connection whose peer has neither
\* sent nor closed.
BlockedOnSilentPeer == serverPc = "recv" /\ cur.state = "silent"

(* C9: shutdown terminates.  Once stop_ is set and the loopback connection  *)
(* was attempted, the listener loop exits and the destructor's join        *)
(* returns, whatever the listener was doing (not yet bound, blocked in     *)
(* accept, or handling a request).                                         *)
C9_ShutdownTerminates ==
    (stop /\ LoopbackAttempted) ~> (mainPc = "destroyed")

\* The extent of the failure of C9: the destructor returns in every fair
\* behaviour except those where the listener stays in recv() forever on a
\* connection whose peer neither sends nor closes.
ShutdownHangsOnlyOnSilentPeer ==
    (<>[]BlockedOnSilentPeer) \/ C9_ShutdownTerminates

(* C10: after the destructor has returned no connection is accepted and    *)
(* no command changes the store or the WAL.                                *)
C10_NothingAfterDestruction ==
    [][(mainPc = "destroyed" /\ mainPc' = "destroyed")
            => UNCHANGED <<store, wal, logged, backlog, cur, serverPc>>]_vars

\* A node that served a write and was then destroyed through the loopback
\* connection.
C10_Witness ==
    mainPc = "destroyed" /\ loopback = "connected" /\ logged # <<>>

Handling ==
    serverPc \in {"recv", "put", "put_log", "remove", "remove_log", "get",
                  "close"}

(* C26: connections are served strictly one after another on the single   *)
(* listener thread.  The listener holds a connection exactly while it is   *)
(* inside handleClient; a connection is taken from the backlog only by     *)
(* accept, when no connection is held; and a command is dispatched only    *)
(* out of recv, which is entered only by accept, so each accepted          *)
(* connection has at most one command processed before it is closed.       *)
C26_OneConnectionAtATime ==
    [][/\ (cur' # NoConn) <=> Handling'
       /\ (serverPc' = "recv" /\ serverPc # "recv")
            => serverPc = "accept" /\ cur = NoConn /\ cur' = Head(backlog)
       /\ (Len(backlog') < Len(backlog) /\ serverPc' # "exited"
                /\ mainPc' # "crashed" /\ mainPc' # "ctor_replay")
            => serverPc = "accept" /\ cur = NoConn /\ backlog' = Tail(backlog)
       /\ (serverPc' \in {"put", "remove", "get"} /\ serverPc' # serverPc)
            => serverPc = "recv"
       /\ (serverPc = "close" /\ serverPc' # "close")
            => cur' = NoConn]_vars

\* The listener is in the middle of one connection's PUT while another
\* connection waits in the backlog, not yet accepted.
C26_Witness ==
    /\ serverPc = "put_log" /\ cur.state = "data" /\ Len(backlog) = 1

\* The file content s is what the file content t began with.
IsPrefix(s, t) == Len(s) <= Len(t) /\ SubSeq(t, 1, Len(s)) = s

\* A node is being constructed: the WAL is opened, replayed, and the
\* listener thread is started.
Constructing ==
    \/ mainPc \in {"crashed", "destroyed"} /\ mainPc' = "ctor_replay"
    \/ mainPc = "ctor_replay" /\ mainPc' = "ctor_spawn"
    \/ mainPc = "ctor_spawn" /\ mainPc' = "idle"

(* C30: restart is idempotent and the WAL is append-only.  No step removes *)
(* or rewrites WAL content: what the file held before a step is a prefix   *)
(* of what it holds after.  Constructing a node (open, replay, start the   *)
(* listener) leaves the file exactly as it was, and the store a            *)
(* construction builds is the replay of the file onto an empty store, so   *)
(* constructions on the same file content build the same store.            *)
C30_RestartIdempotentWalAppendOnly ==
    [][/\ IsPrefix(wal, wal')
       /\ Constructing => wal' = wal
       /\ (mainPc = "ctor_replay" /\ mainPc' = "ctor_spawn")
            => store' = Replay(wal', EmptyStore)]_vars

\* A second node was constructed on a WAL holding two records and has
\* replayed it; the file is as the first node left it.
C30_Witness ==
    /\ restarts = 1 /\ mainPc = "ctor_spawn" /\ Len(logged) = 2
    /\ wal # <<>> /\ store = Replay(wal, EmptyStore)

---------------------------------------------------------------------------
(* RbSpec: one LockFreeRingBuffer<int, Size> used by a single thread, which  *)
(* calls push, pop and size in any order (TEST_F(TimedTest, BasicPushPop),   *)
(* TEST_F(TimedTest, Overfill)).                                             *)

Size     == 2    \* the template parameter: the capacity
MaxRbOps == 8    \* successful pushes and pops made in RbSpec

Items == {1, 2}

\* The node's, the WAL's and the other components' variables in RbSpec.
notRb == <<nodeVars, walVars, replVars, ringVars, kvVars, spVars, tpVars>>

\* LockFreeRingBuffer(): head_(0), tail_(0); buffer_ is left uninitialised,
\* so its slots hold whatever was there.
RbInit ==
    /\ rbBuffer \in [0..Size -> Items \cup {0}]
    /\ rbHead = 0 /\ rbTail = 0
    /\ rbRet = [op |-> "none", ok |-> TRUE, item |-> 0]
    /\ rbItems = <<>> /\ rbPushes = 0 /\ rbPops = 0
    /\ NodeOff /\ WalOff /\ ReplOff /\ RingOff /\ KvOff /\ SpOff /\ TpOff

\* Faulty variant: the indices wrap at Size, not at Size + 1.
push_NoSpareSlot(item) ==
    /\ rbPushes + rbPops < MaxRbOps
    /\ LET head     == rbHead
           nextHead == (head + 1) % Size
       IN  IF nextHead = rbTail
           THEN /\ rbRet' = [op |-> "push", ok |-> FALSE, item |-> item]
                /\ UNCHANGED <<rbBuffer, rbHead, rbItems, rbPushes>>
           ELSE /\ rbBuffer' = [rbBuffer EXCEPT ![head] = item]
                /\ rbHead' = nextHead
                /\ rbRet' = [op |-> "push", ok |-> TRUE, item |-> item]
                /\ rbItems' = Append(rbItems, item)
                /\ rbPushes' = rbPushes + 1
    /\ UNCHANGED <<rbTail, rbPops, notRb>>

\* bool push(const T& item)
push(item) ==
    /\ rbPushes + rbPops < MaxRbOps
    /\ LET head     == rbHead
           nextHead == (head + 1) % (Size + 1)
       IN  IF nextHead = rbTail
           THEN /\ rbRet' = [op |-> "push", ok |-> FALSE, item |-> item]
                /\ UNCHANGED <<rbBuffer, rbHead, rbItems, rbPushes>>
           ELSE /\ rbBuffer' = [rbBuffer EXCEPT ![head] = item]
                /\ rbHead' = nextHead
                /\ rbRet' = [op |-> "push", ok |-> TRUE, item |-> item]
                /\ rbItems' = Append(rbItems, item)
                /\ rbPushes' = rbPushes + 1
    /\ UNCHANGED <<rbTail, rbPops, notRb>>

\* bool pop(T& item)
pop ==
    /\ rbPushes + rbPops < MaxRbOps
    /\ LET tail == rbTail
       IN  IF tail = rbHead
           THEN /\ rbRet' = [op |-> "pop", ok |-> FALSE, item |-> 0]
                /\ UNCHANGED <<rbTail, rbItems, rbPops>>
           ELSE /\ rbRet' = [op |-> "pop", ok |-> TRUE, item |-> rbBuffer[tail]]
                /\ rbTail' = (tail + 1) % (Size + 1)
                /\ rbItems' = Tail(rbItems)
                /\ rbPops' = rbPops + 1
    /\ UNCHANGED <<rbBuffer, rbHead, rbPushes, notRb>>

\* Faulty variant: the wrapped case counts Size slots, not Size + 1.
size_NoSpareSlot ==
    LET h == rbHead
        t == rbTail
    IN  IF h >= t THEN h - t ELSE Size - (t - h)

\* size_t size() const
size ==
    LET h == rbHead
        t == rbTail
    IN  IF h >= t THEN h - t ELSE (Size + 1) - (t - h)

\* A call of size().
SizeCall ==
    /\ rbRet' = [op |-> "size", ok |-> TRUE, item |-> size]
    /\ UNCHANGED <<rbBuffer, rbHead, rbTail, rbItems, rbPushes, rbPops, notRb>>

RbNext ==
    \/ \E item \in Items : push(item)
    \/ pop
    \/ SizeCall

RbSpec == RbInit /\ [][RbNext]_vars

(* C19: RingBuffer capacity.  At every position of the indices a push      *)
(* succeeds exactly when fewer than Size items are held, and a failed push  *)
(* changes nothing that is stored; a pop succeeds exactly when an item is   *)
(* held, returns the oldest one and frees one slot.  So from empty exactly  *)
(* Size pushes succeed and the next fails, and after one pop exactly one    *)
(* more push succeeds.                                                      *)
C19_Capacity ==
    [][ /\ (\E item \in Items : push(item)) =>
             /\ rbRet'.ok <=> (Len(rbItems) < Size)
             /\ ~rbRet'.ok => UNCHANGED <<rbBuffer, rbHead, rbTail>>
        /\ pop =>
             /\ rbRet'.ok <=> (rbItems # <<>>)
             /\ rbRet'.ok => (rbRet'.item = Head(rbItems)
                              /\ Len(rbItems') = Len(rbItems) - 1) ]_vars

\* A push was refused on a full buffer whose head index has wrapped around
\* below its tail index.
C19_Witness ==
    /\ rbRet.op = "push" /\ ~rbRet.ok
    /\ rbHead < rbTail /\ Len(rbItems) = Size

(* C20: RingBuffer size.  With a single thread, after K successful pushes  *)
(* and J successful pops size() returns K - J, also when the head index    *)
(* is below the tail index.                                                *)
C20_SizeIsPushesMinusPops ==
    rbRet.op = "size" => rbRet.item = rbPushes - rbPops

\* size() was called with items held and the head index wrapped below the
\* tail index.
C20_Witness ==
    rbRet.op = "size" /\ rbHead < rbTail /\ rbRet.item > 0

---------------------------------------------------------------------------
(* KvSpec: one ConcurrentHashMap called by several threads.  Each call      *)
(* takes mtx_ (std::lock_guard), works on kvStore_ and releases mtx_ when   *)
(* it returns.  put is "kvStore_[key] = value": operator[] first inserts an *)
(* empty string for a key that is absent, then the value is assigned.       *)

MaxKvOps == 3    \* calls started in KvSpec

Threads == {1, 2}

KvIdle == [op |-> "none", key |-> <<>>, val |-> <<>>]
KvNoRet == [ok |-> FALSE, val |-> <<>>]

notKv == <<nodeVars, walVars, replVars, ringVars, rbVars, spVars, tpVars>>

KvInit ==
    /\ kvMap = EmptyStore /\ kvMtx = 0
    /\ kvPc = [t \in Threads |-> "idle"]
    /\ kvCall = [t \in Threads |-> KvIdle]
    /\ kvRet = [t \in Threads |-> KvNoRet]
    /\ kvHist = <<>> /\ kvOps = 0
    /\ NodeOff /\ WalOff /\ ReplOff /\ RingOff /\ RbOff /\ SpOff /\ TpOff

\* A thread enters put, get or remove and goes for the mutex.
KvCall(t, c) ==
    /\ kvPc[t] = "idle" /\ kvOps < MaxKvOps
    /\ kvPc' = [kvPc EXCEPT ![t] = "lock"]
    /\ kvCall' = [kvCall EXCEPT ![t] = c]
    /\ kvOps' = kvOps + 1
    /\ UNCHANGED <<kvMap, kvMtx, kvRet, kvHist, notKv>>

\* Faulty variant: the call goes on without owning the mutex.
KvLock_NoWait(t) ==
    /\ kvPc[t] = "lock"
    /\ kvMtx' = t
    /\ kvPc' = [kvPc EXCEPT ![t] = "body"]
    /\ kvHist' = Append(kvHist, kvCall[t])
    /\ UNCHANGED <<kvMap, kvCall, kvRet, kvOps, notKv>>

\* std::lock_guard<std::mutex> lg(mtx_): blocks until the mutex is free.
KvLock(t) ==
    /\ kvPc[t] = "lock" /\ kvMtx = 0
    /\ kvMtx' = t
    /\ kvPc' = [kvPc EXCEPT ![t] = "body"]
    /\ kvHist' = Append(kvHist, kvCall[t])
    /\ UNCHANGED <<kvMap, kvCall, kvRet, kvOps, notKv>>

\* put: kvStore_[key] -- operator[] inserts an empty string if key is absent.
KvPutIndex(t) ==
    /\ kvPc[t] = "body" /\ kvCall[t].op = "put"
    /\ kvMap' = IF StoreHas(kvMap, kvCall[t].key) THEN kvMap
                ELSE StorePut(kvMap, kvCall[t].key, <<>>)
    /\ kvPc' = [kvPc EXCEPT ![t] = "assign"]
    /\ UNCHANGED <<kvMtx, kvCall, kvRet, kvHist, kvOps, notKv>>

\* put: ... = value
KvPutAssign(t) ==
    /\ kvPc[t] = "assign"
    /\ kvMap' = StorePut(kvMap, kvCall[t].key, kvCall[t].val)
    /\ kvRet' = [kvRet EXCEPT ![t] = KvNoRet]
    /\ kvPc' = [kvPc EXCEPT ![t] = "unlock"]
    /\ UNCHANGED <<kvMtx, kvCall, kvHist, kvOps, notKv>>

\* get: find; if found outVal = it->second, return true; else return false.
KvGet(t) ==
    /\ kvPc[t] = "body" /\ kvCall[t].op = "get"
    /\ kvRet' = [kvRet EXCEPT ![t] =
                    IF StoreHas(kvMap, kvCall[t].key)
                    THEN [ok |-> TRUE, val |-> kvMap[kvCall[t].key]]
                    ELSE [ok |-> FALSE, val |-> <<>>]]
    /\ kvPc' = [kvPc EXCEPT ![t] = "unlock"]
    /\ UNCHANGED <<kvMap, kvMtx, kvCall, kvHist, kvOps, notKv>>

\* Faulty variant: remove reports success whether or not the key was there.
KvRemove_AlwaysTrue(t) ==
    /\ kvPc[t] = "body" /\ kvCall[t].op = "remove"
    /\ kvRet' = [kvRet EXCEPT ![t] = [ok |-> TRUE, val |-> <<>>]]
    /\ kvMap' = StoreRemove(kvMap, kvCall[t].key)
    /\ kvPc' = [kvPc EXCEPT ![t] = "unlock"]
    /\ UNCHANGED <<kvMtx, kvCall, kvHist, kvOps, notKv>>

\* remove: return kvStore_.erase(key) > 0
KvRemove(t) ==
    /\ kvPc[t] = "body" /\ kvCall[t].op = "remove"
    /\ kvRet' = [kvRet EXCEPT ![t] =
                    [ok |-> StoreHas(kvMap, kvCall[t].key), val |-> <<>>]]
    /\ kvMap' = StoreRemove(kvMap, kvCall[t].key)
    /\ kvPc' = [kvPc EXCEPT ![t] = "unlock"]
    /\ UNCHANGED <<kvMtx, kvCall, kvHist, kvOps, notKv>>

\* The lock_guard's destructor on return.
KvUnlock(t) ==
    /\ kvPc[t] = "unlock"
    /\ kvMtx' = IF kvMtx = t THEN 0 ELSE kvMtx
    /\ kvPc' = [kvPc EXCEPT ![t] = "idle"]
    /\ UNCHANGED <<kvMap, kvCall, kvRet, kvHist, kvOps, notKv>>

KvCalls ==
    {[op |-> "put", key |-> k, val |-> v] : k \in Keys, v \in Values}
        \cup {[op |-> o, key |-> k, val |-> <<>>] : o \in {"get", "remove"}, k \in Keys}

KvNext ==
    \E t \in Threads :
        \/ \E c \in KvCalls : KvCall(t, c)
        \/ KvLock(t)
        \/ KvPutIndex(t)
        \/ KvPutAssign(t)
        \/ KvGet(t)
        \/ KvRemove(t)
        \/ KvUnlock(t)

KvSpec == KvInit /\ [][KvNext]_vars

\* What the calls of a history leave for key k: the value of the latest put
\* of k that no remove of k follows, or absence.
LatestWrite(hist, k) ==
    LET idx == {i \in 1..Len(hist) : hist[i].key = k /\ hist[i].op \in {"put", "remove"}}
    IN  IF idx = {} THEN [ok |-> FALSE, val |-> <<>>]
        ELSE LET m == CHOOSE i \in idx : \A j \in idx : j <= i
             IN  IF hist[m].op = "put" THEN [ok |-> TRUE, val |-> hist[m].val]
                 ELSE [ok |-> FALSE, val |-> <<>>]

\* The history before its last call.
Earlier(hist) == SubSeq(hist, 1, Len(hist) - 1)

(* C17: KeyValueStore sequential semantics.  When a call has done its work, *)
(* a get has returned the value of the latest put of its key not followed   *)
(* by a remove, or absence; a remove has returned true exactly when its     *)
(* key was present before it; and every key of the map holds what the       *)
(* calls so far left for it, so calls on one key leave the others alone.    *)
C17_SequentialSemantics ==
    \A t \in Threads :
        kvPc[t] = "unlock" =>
            /\ kvCall[t].op = "get" =>
                  kvRet[t] = LatestWrite(Earlier(kvHist), kvCall[t].key)
            /\ kvCall[t].op = "remove" =>
                  (kvRet[t].ok <=> LatestWrite(Earlier(kvHist), kvCall[t].key).ok)
            /\ \A k \in Keys :
                  /\ StoreHas(kvMap, k) <=> LatestWrite(kvHist, k).ok
                  /\ StoreHas(kvMap, k) => kvMap[k] = LatestWrite(kvHist, k).val

\* A get reported absence for a key that had been put and removed again.
C17_Witness ==
    \E t \in Threads : \E k \in Keys :
        /\ kvPc[t] = "unlock" /\ kvCall[t] = [op |-> "get", key |-> k, val |-> <<>>]
        /\ ~kvRet[t].ok
        /\ \E i \in 1..Len(kvHist) : kvHist[i].op = "put" /\ kvHist[i].key = k

(* C18: store linearizability.  Under any interleaving of concurrent calls  *)
(* a thread works on the map only while it alone holds the mutex, and a     *)
(* get never returns a value that no put stored for that key: not another   *)
(* key's value, nor the empty string of a half-done put.                    *)
C18_Linearizable ==
    \A t \in Threads :
        /\ kvPc[t] \in {"body", "assign", "unlock"} =>
              /\ kvMtx = t
              /\ \A u \in Threads \ {t} : kvPc[u] \in {"idle", "lock"}
        /\ (kvPc[t] = "unlock" /\ kvCall[t].op = "get" /\ kvRet[t].ok) =>
              \E i \in 1..Len(kvHist) :
                  /\ kvHist[i].op = "put" /\ kvHist[i].key = kvCall[t].key
                  /\ kvHist[i].val = kvRet[t].val

\* A get found a value while another thread was waiting for the mutex with
\* a put of the same key.
C18_Witness ==
    \E t \in Threads : \E u \in Threads \ {t} :
        /\ kvPc[t] = "unlock" /\ kvCall[t].op = "get" /\ kvRet[t].ok
        /\ kvPc[u] = "lock" /\ kvCall[u].op = "put"
        /\ kvCall[u].key = kvCall[t].key

---------------------------------------------------------------------------
(* RingSpec: one ConsistentHashRing.  std::hash<std::string> is a fixed     *)
(* function, unknown to the program: any assignment of hash values to the   *)
(* strings in use is possible, equal values for different strings included. *)

MaxReplicas == 2    \* numReplicas_ ranges over 1..MaxReplicas
HashMax     == 2    \* hash values range over 0..HashMax
MaxRingOps  == 3    \* addNode/removeNode calls made in RingSpec

RingNodes == {"A", "B", "C"}
\* The key looked up; like every string in use its hash value is arbitrary.
RingKeys  == {<<"k1">>}

\* nodeName + "#" + std::to_string(i)
Replica(n, i) == <<n, "#", i>>

RingStrings(nr) == {Replica(n, i) : n \in RingNodes, i \in 0..(nr - 1)} \cup RingKeys

notRing == <<nodeVars, walVars, replVars, kvVars, rbVars, spVars, tpVars>>

NoRingOp == [op |-> "none", node |-> ""]
NoGet    == [key |-> <<>>, node |-> "", again |-> FALSE]

\* ConsistentHashRing(numReplicas): an empty ring_.
RingInit ==
    /\ numReplicas \in 1..MaxReplicas
    /\ hashOf \in [RingStrings(numReplicas) -> 0..HashMax]
    /\ ring = <<>> /\ ringAdded = {} /\ ringRemoved = {}
    /\ ringLastOp = NoRingOp
    /\ ringPrev = [k \in RingKeys |-> ""]
    /\ ringGot = NoGet /\ ringSeen = <<>> /\ ringOps = 0
    /\ NodeOff /\ WalOff /\ ReplOff /\ KvOff /\ RbOff /\ SpOff /\ TpOff

\* Faulty variant: past the last point the lookup does not go back to the
\* first one.
getNode_NoWrap(rg, key) ==
    IF DOMAIN rg = {} THEN ""
    ELSE LET hashVal == hashOf[key]
             atOrAfter == {p \in DOMAIN rg : p >= hashVal}
         IN  IF atOrAfter = {} THEN ""
             ELSE rg[CHOOSE p \in atOrAfter : \A q \in atOrAfter : p <= q]

\* Faulty variant: the lookup takes the first point strictly after the key's
\* hash value (upper_bound).
getNode_UpperBound(rg, key) ==
    IF DOMAIN rg = {} THEN ""
    ELSE LET hashVal == hashOf[key]
             after == {p \in DOMAIN rg : p > hashVal}
             it == IF after = {}
                   THEN CHOOSE p \in DOMAIN rg : \A q \in DOMAIN rg : p <= q
                   ELSE CHOOSE p \in after : \A q \in after : p <= q
         IN  rg[it]

\* getNode(key) on a ring_ with contents rg: the first point at or after the
\* key's hash value (lower_bound), or the first point of all past the end.
getNode(rg, key) ==
    IF DOMAIN rg = {} THEN ""
    ELSE LET hashVal == hashOf[key]
             atOrAfter == {p \in DOMAIN rg : p >= hashVal}
             it == IF atOrAfter = {}
                   THEN CHOOSE p \in DOMAIN rg : \A q \in DOMAIN rg : p <= q
                   ELSE CHOOSE p \in atOrAfter : \A q \in atOrAfter : p <= q
         IN  rg[it]

\* The points addNode/removeNode compute for a node.
PointsOf(n) == {hashOf[Replica(n, i)] : i \in 0..(numReplicas - 1)}

\* The owner of every key in use.
Owners(rg) == [k \in RingKeys |-> getNode(rg, k)]

\* addNode: ring_[hashVal] = nodeName for each replica; a point already
\* present is overwritten.
addNode(n) ==
    /\ ringOps < MaxRingOps
    /\ ring' = [p \in (DOMAIN ring) \cup PointsOf(n) |->
                    IF p \in PointsOf(n) THEN n ELSE ring[p]]
    /\ ringAdded' = ringAdded \cup {n}
    /\ ringLastOp' = [op |-> "add", node |-> n]
    /\ ringPrev' = Owners(ring)
    /\ ringGot' = NoGet /\ ringSeen' = <<>>
    /\ ringOps' = ringOps + 1
    /\ UNCHANGED <<hashOf, numReplicas, ringRemoved, notRing>>

\* removeNode: ring_.erase(hashVal) for each replica, whatever node the
\* point belongs to.
removeNode(n) ==
    /\ ringOps < MaxRingOps
    /\ n \in ringAdded
    /\ ring' = [p \in (DOMAIN ring) \ PointsOf(n) |-> ring[p]]
    /\ ringAdded' = ringAdded \ {n}
    /\ ringRemoved' = ringRemoved \cup {n}
    /\ ringLastOp' = [op |-> "remove", node |-> n]
    /\ ringPrev' = Owners(ring)
    /\ ringGot' = NoGet /\ ringSeen' = <<>>
    /\ ringOps' = ringOps + 1
    /\ UNCHANGED <<hashOf, numReplicas, notRing>>

\* A call of getNode(key).
GetNodeCall(k) ==
    /\ ringGot' = [key |-> k, node |-> getNode(ring, k), again |-> k \in DOMAIN ringSeen]
    /\ ringSeen' = [x \in (DOMAIN ringSeen) \cup {k} |->
                        IF x = k THEN getNode(ring, k) ELSE ringSeen[x]]
    /\ UNCHANGED <<hashOf, numReplicas, ring, ringAdded, ringRemoved,
                   ringLastOp, ringPrev, ringOps, notRing>>

RingNext ==
    \/ \E n \in RingNodes : addNode(n)
    \/ \E n \in RingNodes : removeNode(n)
    \/ \E k \in RingKeys : GetNodeCall(k)

RingSpec == RingInit /\ [][RingNext]_vars

\* No two replica strings of different nodes have the same hash value.
NoCollisions ==
    \A n, m \in RingNodes : n # m => PointsOf(n) \cap PointsOf(m) = {}

(* C14: ring determinism and membership.  On a ring built by addNode calls  *)
(* only, every getNode(key) call returns the node the earlier calls for     *)
(* that key returned since the ring last changed, and that node is one of   *)
(* the nodes added (never the empty name).                                  *)
C14_DeterministicMember ==
    [][\A k \in RingKeys :
          GetNodeCall(k) =>
             /\ k \in DOMAIN ringSeen => ringGot'.node = ringSeen[k]
             /\ (ringRemoved = {} /\ ringAdded # {}) => ringGot'.node \in ringAdded]_vars

\* A repeated getNode call for a key whose hash value lies past the last
\* point of a ring of two nodes or more.
C14_Witness ==
    /\ ringGot.again /\ ringRemoved = {} /\ Cardinality(ringAdded) >= 2
    /\ \A p \in DOMAIN ring : p < hashOf[ringGot.key]

(* C15: ring redistribution.  getNode never returns a node that was removed *)
(* and not added again, and right after removeNode(C) every key that was    *)
(* mapped to C is mapped to one of the remaining nodes; whatever the order  *)
(* of the earlier addNode calls and whatever the hash values.               *)
C15_RemovedNeverReturned ==
    \A k \in RingKeys :
        /\ getNode(ring, k) \notin (ringRemoved \ ringAdded)
        /\ (ringLastOp.op = "remove" /\ ringAdded # {} /\ ringPrev[k] = ringLastOp.node)
              => getNode(ring, k) \in ringAdded

(* C16: minimal key movement.  Right after removeNode(C) every key that was *)
(* not mapped to C has kept its owner, and right after addNode(D) every key *)
(* whose owner changed is now mapped to D.                                  *)
C16_MinimalMovement ==
    \A k \in RingKeys :
        /\ (ringLastOp.op = "remove" /\ ringPrev[k] # ringLastOp.node)
              => getNode(ring, k) = ringPrev[k]
        /\ (ringLastOp.op = "add" /\ getNode(ring, k) # ringPrev[k])
              => getNode(ring, k) = ringLastOp.node

(* C27: lookup semantics.  getNode returns the node of the smallest ring   *)
(* point at or after the key's hash value; when no point is that large it  *)
(* wraps to the smallest point of the ring.  On a ring without points it   *)
(* returns the empty string, and that is the case whenever every node      *)
(* that was added has been removed again.                                  *)
C27_LookupSemantics ==
    (ringGot.key # <<>>) =>
        LET h   == hashOf[ringGot.key]
            r   == ringGot.node
            pts == DOMAIN ring
        IN  /\ (pts = {}) => (r = "")
            /\ (ringAdded = {}) => (r = "")
            /\ (pts # {}) =>
                 \E p \in pts :
                    /\ r = ring[p]
                    /\ IF \E q \in pts : q >= h
                       THEN p >= h /\ \A q \in pts : (q >= h) => (p <= q)
                       ELSE \A q \in pts : p <= q

\* A lookup on a ring from which every node that was added has been
\* removed again returned the empty string.
C27_Witness ==
    /\ ringGot.key # <<>> /\ ringGot.node = ""
    /\ ringAdded = {} /\ ringRemoved # {}

---------------------------------------------------------------------------
(* ReplSpec: two DistributedNode objects in one process, as in main().  A   *)
(* calling thread runs doPut: put on one node (store, then WAL), then       *)
(* replicateTo the other node's port.  Each node's listener thread binds,   *)
(* then receives the PUT messages sent to its port and handles them with    *)
(* put.  The calling thread does not wait for the listeners: a node may not *)
(* be listening yet when replicateTo connects.                              *)

MaxReplCalls == 3    \* doPut and removeKey calls made in ReplSpec

ReplNodes == {"nodeA", "nodeB"}
ReplKeys  == { <<"a">> }

\* The other node: the target of replicateTo in doPut.
Peer(n) == IF n = "nodeA" THEN "nodeB" ELSE "nodeA"

notRepl == <<nodeVars, walVars, ringVars, kvVars, rbVars, spVars, tpVars>>

NoDoPut == [node |-> "", key |-> <<>>, val |-> <<>>]
NoSrvOp == [op |-> "NONE", key |-> <<>>, val |-> <<>>, sentBefore |-> 0]

\* A write applied to a node's store: by a direct caller or by the listener.
Applied(k, v, by) == [op |-> "put", key |-> k, val |-> v, by |-> by]

\* A removal applied to a node's store.
Erased(k, by) == [op |-> "remove", key |-> k, val |-> <<>>, by |-> by]

NoStale == [owner |-> "", key |-> <<>>, val |-> <<>>]

\* Node n holds k = v from a PUT message it has handled completely: the
\* write applied there last came through the listener and is in the WAL.
HoldsReplica(n, k) ==
    /\ StoreHas(rStore[n], k)
    /\ rLast[n] # <<>> /\ rLast[n][Len(rLast[n])].by = "listener"
    /\ rLast[n][Len(rLast[n])].key = k
    /\ rSrvPc[n] = "accept" /\ rQueue[n] = <<>>

ReplInit ==
    /\ rStore = [n \in ReplNodes |-> EmptyStore]
    /\ rWal = [n \in ReplNodes |-> <<>>]
    /\ rUp = [n \in ReplNodes |-> FALSE]
    /\ rQueue = [n \in ReplNodes |-> <<>>]
    /\ rSrvPc = [n \in ReplNodes |-> "start"]
    /\ rSrvOp = [n \in ReplNodes |-> NoSrvOp]
    /\ rPc = "idle" /\ rOp = NoDoPut
    /\ rReplSent = [n \in ReplNodes |-> 0]
    /\ rHandled = [n \in ReplNodes |-> 0]
    /\ rLast = [n \in ReplNodes |-> <<>>]
    /\ rRaced = FALSE /\ rFailed = 0 /\ rCalls = 0 /\ rStale = NoStale
    /\ NodeOff /\ WalOff /\ RingOff /\ KvOff /\ RbOff /\ SpOff /\ TpOff

\* A PUT message for key k is waiting at node n or being handled by it.
ReplicaPending(n, k) ==
    \/ \E i \in 1..Len(rQueue[n]) : ParseRequest(rQueue[n][i]).key = k
    \/ rSrvPc[n] = "put" /\ rSrvOp[n].key = k

(* ---- the calling thread: doPut ---- *)

\* doPut -> node.put(key, value): dataStore_.put
DoPut(n, k, v) ==
    /\ rPc = "idle" /\ rCalls < MaxReplCalls
    /\ rStore' = [rStore EXCEPT ![n] = StorePut(@, k, v)]
    /\ rLast' = [rLast EXCEPT ![n] = Append(@, Applied(k, v, "caller"))]
    /\ rOp' = [node |-> n, key |-> k, val |-> v]
    /\ rPc' = "log"
    /\ rRaced' = (rRaced \/ ReplicaPending(n, k))
    /\ rCalls' = rCalls + 1
    /\ rStale' = IF rStale.owner = Peer(n) THEN NoStale ELSE rStale
    /\ UNCHANGED <<rWal, rUp, rQueue, rSrvPc, rSrvOp, rReplSent, rHandled,
                   rFailed, notRepl>>

\* doPut -> node.put(key, value): wal_.logPut
DoPutLog ==
    /\ rPc = "log"
    /\ rWal' = [rWal EXCEPT ![rOp.node] = LogPut(@, rOp.key, rOp.val)]
    /\ rPc' = "repl"
    /\ UNCHANGED <<rStore, rUp, rQueue, rSrvPc, rSrvOp, rOp, rReplSent,
                   rHandled, rLast, rRaced, rFailed, rCalls, rStale,
                   notRepl>>

\* replicateTo: connect() succeeds, "PUT key value\n" is sent, the socket
\* is closed.
ReplicateTo ==
    /\ rPc = "repl" /\ rUp[Peer(rOp.node)]
    /\ rQueue' = [rQueue EXCEPT ![Peer(rOp.node)] = Append(@, ReqPut(rOp.key, rOp.val))]
    /\ rReplSent' = [rReplSent EXCEPT ![rOp.node] = @ + 1]
    /\ rPc' = "idle"
    /\ UNCHANGED <<rStore, rWal, rUp, rSrvPc, rSrvOp, rOp, rHandled, rLast,
                   rRaced, rFailed, rCalls, rStale,
                   notRepl>>

\* Faulty variant: after a failed connect the message is kept and delivered
\* once the peer listens.
ReplicateFail_Keeps ==
    /\ rPc = "repl" /\ ~rUp[Peer(rOp.node)]
    /\ rQueue' = [rQueue EXCEPT ![Peer(rOp.node)] = Append(@, ReqPut(rOp.key, rOp.val))]
    /\ rFailed' = rFailed + 1
    /\ rPc' = "idle"
    /\ UNCHANGED <<rStore, rWal, rUp, rSrvPc, rSrvOp, rOp, rReplSent,
                   rHandled, rLast, rRaced, rCalls, rStale,
                   notRepl>>

\* replicateTo: connect() < 0 -- close(sock); return.
ReplicateFail ==
    /\ rPc = "repl" /\ ~rUp[Peer(rOp.node)]
    /\ rFailed' = rFailed + 1
    /\ rPc' = "idle"
    /\ UNCHANGED <<rStore, rWal, rUp, rQueue, rSrvPc, rSrvOp, rOp, rReplSent,
                   rHandled, rLast, rRaced, rCalls, rStale,
                   notRepl>>

\* node.removeKey(key), first statement: dataStore_.remove(key).
DoRemove(n, k) ==
    /\ rPc = "idle" /\ rCalls < MaxReplCalls
    /\ rStore' = [rStore EXCEPT ![n] = StoreRemove(@, k)]
    /\ rLast' = [rLast EXCEPT ![n] = Append(@, Erased(k, "caller"))]
    /\ rOp' = [node |-> n, key |-> k, val |-> <<>>]
    /\ rPc' = "remove_log"
    /\ rCalls' = rCalls + 1
    /\ rStale' = IF HoldsReplica(Peer(n), k)
                 THEN [owner |-> n, key |-> k, val |-> rStore[Peer(n)][k]]
                 ELSE IF rStale.owner = Peer(n) THEN NoStale ELSE rStale
    /\ UNCHANGED <<rWal, rUp, rQueue, rSrvPc, rSrvOp, rReplSent, rHandled,
                   rRaced, rFailed, notRepl>>

\* Faulty variant: the removal is also sent to the peer.
DoRemoveLog_Replicates ==
    /\ rPc = "remove_log"
    /\ rWal' = [rWal EXCEPT ![rOp.node] = LogRemove(@, rOp.key)]
    /\ rQueue' = [rQueue EXCEPT ![Peer(rOp.node)] = Append(@, ReqRemove(rOp.key))]
    /\ rPc' = "idle"
    /\ UNCHANGED <<rStore, rUp, rSrvPc, rSrvOp, rOp, rReplSent, rHandled,
                   rLast, rRaced, rFailed, rCalls, rStale, notRepl>>

\* node.removeKey(key), second statement: wal_.logRemove(key); return.
\* Nothing is sent to any peer.
DoRemoveLog ==
    /\ rPc = "remove_log"
    /\ rWal' = [rWal EXCEPT ![rOp.node] = LogRemove(@, rOp.key)]
    /\ rPc' = "idle"
    /\ UNCHANGED <<rStore, rUp, rQueue, rSrvPc, rSrvOp, rOp, rReplSent,
                   rHandled, rLast, rRaced, rFailed, rCalls, rStale, notRepl>>

(* ---- the listener thread of node n ---- *)

\* runServer: socket, bind, listen.
RListen(n) ==
    /\ rSrvPc[n] = "start"
    /\ rUp' = [rUp EXCEPT ![n] = TRUE]
    /\ rSrvPc' = [rSrvPc EXCEPT ![n] = "accept"]
    /\ UNCHANGED <<rStore, rWal, rQueue, rSrvOp, rPc, rOp, rReplSent,
                   rHandled, rLast, rRaced, rFailed, rCalls, rStale,
                   notRepl>>

\* accept, handleClient: recv and parse; a PUT goes on to put(key, value).
RRecv(n) ==
    /\ rSrvPc[n] = "accept" /\ rQueue[n] # <<>>
    /\ LET p == ParseRequest(Head(rQueue[n]))
       IN  /\ p.cmd = PUT
           /\ rSrvOp' = [rSrvOp EXCEPT ![n] =
                  [op |-> "PUT", key |-> p.key, val |-> p.val,
                   sentBefore |-> rReplSent[n]]]
    /\ rQueue' = [rQueue EXCEPT ![n] = Tail(@)]
    /\ rSrvPc' = [rSrvPc EXCEPT ![n] = "put"]
    /\ UNCHANGED <<rStore, rWal, rUp, rPc, rOp, rReplSent, rHandled, rLast,
                   rRaced, rFailed, rCalls, rStale,
                   notRepl>>

\* Faulty variant: a key already present keeps its value.
RSrvPut_KeepsOld(n) ==
    /\ rSrvPc[n] = "put"
    /\ rStore' = [rStore EXCEPT ![n] =
                     IF StoreHas(@, rSrvOp[n].key) THEN @
                     ELSE StorePut(@, rSrvOp[n].key, rSrvOp[n].val)]
    /\ rLast' = [rLast EXCEPT ![n] =
                    Append(@, Applied(rSrvOp[n].key, rSrvOp[n].val, "listener"))]
    /\ rRaced' = (rRaced \/ (rPc = "log" /\ rOp.node = n /\ rOp.key = rSrvOp[n].key))
    /\ rSrvPc' = [rSrvPc EXCEPT ![n] = "put_log"]
    /\ UNCHANGED <<rWal, rUp, rQueue, rSrvOp, rPc, rOp, rReplSent, rHandled,
                   rFailed, rCalls, rStale,
                   notRepl>>

\* handleClient -> put(key, value): dataStore_.put
RSrvPut(n) ==
    /\ rSrvPc[n] = "put"
    /\ rStore' = [rStore EXCEPT ![n] = StorePut(@, rSrvOp[n].key, rSrvOp[n].val)]
    /\ rLast' = [rLast EXCEPT ![n] =
                    Append(@, Applied(rSrvOp[n].key, rSrvOp[n].val, "listener"))]
    /\ rRaced' = (rRaced \/ (rPc = "log" /\ rOp.node = n /\ rOp.key = rSrvOp[n].key))
    /\ rSrvPc' = [rSrvPc EXCEPT ![n] = "put_log"]
    /\ UNCHANGED <<rWal, rUp, rQueue, rSrvOp, rPc, rOp, rReplSent, rHandled,
                   rFailed, rCalls, rStale,
                   notRepl>>

\* handleClient -> put(key, value): wal_.logPut; then close(clientSock) and
\* back to accept.  Nothing is sent to any peer.
RSrvPutLog(n) ==
    /\ rSrvPc[n] = "put_log"
    /\ rWal' = [rWal EXCEPT ![n] = LogPut(@, rSrvOp[n].key, rSrvOp[n].val)]
    /\ rHandled' = [rHandled EXCEPT ![n] = @ + 1]
    /\ rSrvPc' = [rSrvPc EXCEPT ![n] = "accept"]
    /\ UNCHANGED <<rStore, rUp, rQueue, rSrvOp, rPc, rOp, rReplSent, rLast,
                   rRaced, rFailed, rCalls, rStale,
                   notRepl>>

ReplNext ==
    \/ \E n \in ReplNodes, k \in ReplKeys, v \in Values : DoPut(n, k, v)
    \/ DoPutLog
    \/ ReplicateTo
    \/ ReplicateFail
    \/ \E n \in ReplNodes, k \in ReplKeys : DoRemove(n, k)
    \/ DoRemoveLog
    \/ \E n \in ReplNodes :
          RListen(n) \/ RRecv(n) \/ RSrvPut(n) \/ RSrvPutLog(n)

ReplSpec == ReplInit /\ [][ReplNext]_vars

\* No call in progress, no message on its way, every listener in accept.
ReplQuiescent ==
    /\ rPc = "idle"
    /\ \A n \in ReplNodes : rQueue[n] = <<>> /\ rSrvPc[n] = "accept"

(* C11: a node that has handled a PUT command arriving on its listener has *)
(* also sent a replication message for it to a peer.                       *)
C11_HandledPutIsReplicated ==
    \A n \in ReplNodes :
        (rHandled[n] > 0 /\ rSrvPc[n] = "accept")
            => rReplSent[n] > rSrvOp[n].sentBefore

(* C12: replicateTo is best-effort.  When the connection to the peer fails *)
(* the call returns, nothing is sent then or later, and no node's store or *)
(* WAL is changed by it.                                                   *)
C12_FailedReplicationIsSilent ==
    [][(rPc = "repl" /\ ~rUp[Peer(rOp.node)] /\ rPc' # rPc)
          => /\ rPc' = "idle"
             /\ UNCHANGED <<rStore, rWal, rQueue, rReplSent>>]_vars

\* A replicateTo call failed and returned; in the end the sender holds the
\* key, the peer does not.
C12_Witness ==
    /\ rFailed > 0 /\ ReplQuiescent
    /\ \E n \in ReplNodes, k \in ReplKeys :
          StoreHas(rStore[n], k) /\ ~StoreHas(rStore[Peer(n)], k)

(* C13: no cross-node ordering.  On every node the value of a key is that  *)
(* of the write applied to its store last, be it a direct write or a       *)
(* replicated PUT; the witness is a quiescent state after such a race in   *)
(* which the two nodes hold different values for the same key.             *)
C13_LastWriteWins ==
    \A n \in ReplNodes : \A k \in ReplKeys :
        LET w == LatestWrite(rLast[n], k)
        IN  /\ StoreHas(rStore[n], k) <=> w.ok
            /\ StoreHas(rStore[n], k) => rStore[n][k] = w.val

\* The nodes have diverged: quiescent, after a direct write met a
\* replicated PUT of the same key, with different values on the two nodes.
C13_Witness ==
    /\ ReplQuiescent /\ rRaced
    /\ \E k \in ReplKeys :
          /\ StoreHas(rStore["nodeA"], k) /\ StoreHas(rStore["nodeB"], k)
          /\ rStore["nodeA"][k] # rStore["nodeB"][k]

\* Every message on its way to a listener is a PUT.
OnlyPutMessages ==
    \A n \in ReplNodes : \A i \in 1..Len(rQueue[n]) :
        ParseRequest(rQueue[n][i]).cmd = PUT

\* The calling thread takes a step of removeKey.
RemoveKeyStep ==
    \/ rPc = "idle" /\ rPc' = "remove_log"
    \/ rPc = "remove_log" /\ rPc' = "idle"

(* C29, as stated: removals are never propagated to the peer.  After put   *)
(* on the owner, a delivered replicateTo to the peer and removeKey on the  *)
(* owner, the peer's store still holds k = v, and no later action of the   *)
(* owner changes that.                                                     *)
C29_PeerKeepsEntryWhateverOwnerDoes ==
    (rStale # NoStale) =>
        /\ StoreHas(rStore[Peer(rStale.owner)], rStale.key)
        /\ rStore[Peer(rStale.owner)][rStale.key] = rStale.val

(* C29, amended: removals are never propagated to the peer.  The only      *)
(* replication message is PUT key value; no step of removeKey on a node    *)
(* sends anything or changes the peer's store or WAL; and an entry the     *)
(* peer kept after the owner removed the key changes only when the peer's  *)
(* listener handles a further PUT message.                                 *)
C29_RemovalsStayLocal ==
    [][/\ OnlyPutMessages'
       /\ RemoveKeyStep =>
            /\ rStore'[Peer(rOp'.node)] = rStore[Peer(rOp'.node)]
            /\ rWal'[Peer(rOp'.node)] = rWal[Peer(rOp'.node)]
            /\ rQueue' = rQueue /\ rReplSent' = rReplSent
       /\ (rStale # NoStale /\ rStale' = rStale
                /\ rStore'[Peer(rStale.owner)] # rStore[Peer(rStale.owner)])
            => /\ rSrvPc[Peer(rStale.owner)] = "put"
               /\ rSrvPc'[Peer(rStale.owner)] = "put_log"]_vars

\* The owner has removed a key it replicated: it no longer holds the key,
\* the peer's store and WAL still hold the replicated entry, and nothing is
\* on its way.
C29_Witness ==
    /\ rStale # NoStale /\ ReplQuiescent
    /\ ~StoreHas(rStore[rStale.owner], rStale.key)
    /\ StoreHas(rStore[Peer(rStale.owner)], rStale.key)
    /\ rStore[Peer(rStale.owner)][rStale.key] = rStale.val
    /\ rWal[Peer(rStale.owner)] = PutRecord(rStale.key, rStale.val)
    /\ rWal[rStale.owner] =
          PutRecord(rStale.key, rStale.val) \o RemoveRecord(rStale.key)

---------------------------------------------------------------------------
(* SpscSpec: one LockFreeRingBuffer<int, Size> shared by a producer thread  *)
(* that calls push and a consumer thread that calls pop.  Every load and    *)
(* store of head_ and tail_ is a step of its own, and so are the beginning  *)
(* and the end of each access to a slot of buffer_, which is not atomic.    *)
(* A thread's load of the index the other thread stores to may return any   *)
(* value from the one it saw last up to the newest; the release store /     *)
(* acquire load pair orders the slot access before the index it publishes.  *)

MaxSpscPushes == 4    \* successful pushes made in SpscSpec

notSpsc == <<nodeVars, walVars, replVars, ringVars, kvVars, tpVars>>

NoRbRet == [op |-> "none", ok |-> TRUE, item |-> 0]

NoSizeRet ==
    [op |-> "none", item |-> 0, wrapped |-> FALSE, raced |-> FALSE]

\* Two threads were started on a freshly constructed buffer; a third
\* thread may call size() at any time.
SpscInit ==
    /\ rbBuffer \in [0..Size -> Items \cup {0}]
    /\ rbHead = 0 /\ rbTail = 0 /\ rbRet = NoRbRet
    /\ rbItems = <<>> /\ rbPushes = 0 /\ rbPops = 0
    /\ pPc = "idle" /\ pItem = 0 /\ pHead = 0 /\ pSeen = 0 /\ pRet = NoRbRet
    /\ cPc = "idle" /\ cTail = 0 /\ cSeen = 0 /\ cItem = 0 /\ cRaced = FALSE
    /\ cRet = NoRbRet /\ spPushed = <<>> /\ spPopped = <<>>
    /\ sPc = "idle" /\ sHead = 0 /\ sMark = <<0, 0>> /\ sRet = NoSizeRet
    /\ NodeOff /\ WalOff /\ ReplOff /\ RingOff /\ KvOff /\ TpOff

\* The value of an index after n stores to it.
IndexAfter(n) == n % (Size + 1)

\* Both threads are inside an access to the same slot.
SlotRace == pPc = "writing" /\ cPc = "reading" /\ pHead = cTail

(* ---- the producer: push ---- *)

\* push: head = head_.load(relaxed) -- the producer's own index.
PushLoadHead(item) ==
    /\ pPc = "idle" /\ rbPushes < MaxSpscPushes
    /\ pItem' = item
    /\ pHead' = rbHead
    /\ pPc' = "load_tail"
    /\ UNCHANGED <<rbVars, pSeen, pRet, cPc, cTail, cSeen, cItem, cRaced, cRet,
                   spPushed, spPopped, szVars,
                   notSpsc>>

\* Faulty variant: push goes on to write without comparing with tail_.
PushLoadTail_NoFullCheck ==
    /\ pPc = "load_tail"
    /\ pPc' = "write"
    /\ UNCHANGED <<rbVars, pItem, pHead, pSeen, pRet, cPc, cTail, cSeen, cItem,
                   cRaced, cRet, spPushed, spPopped, szVars,
                   notSpsc>>

\* push: if (nextHead == tail_.load(acquire)) return false;
PushLoadTail ==
    /\ pPc = "load_tail"
    /\ \E n \in pSeen..rbPops :
          /\ pSeen' = n
          /\ IF (pHead + 1) % (Size + 1) = IndexAfter(n)
             THEN /\ pRet' = [op |-> "push", ok |-> FALSE, item |-> pItem]
                  /\ pPc' = "idle"
             ELSE /\ pPc' = "write"
                  /\ UNCHANGED pRet
    /\ UNCHANGED <<rbVars, pItem, pHead, cPc, cTail, cSeen, cItem, cRaced, cRet,
                   spPushed, spPopped, szVars,
                   notSpsc>>

\* push: buffer_[head] = item -- the assignment begins.
PushWriteBegin ==
    /\ pPc = "write"
    /\ pPc' = "writing"
    /\ cRaced' = (cRaced \/ (cPc = "reading" /\ cTail = pHead))
    /\ UNCHANGED <<rbVars, pItem, pHead, pSeen, pRet, cPc, cTail, cSeen, cItem,
                   cRet, spPushed, spPopped, szVars,
                   notSpsc>>

\* push: buffer_[head] = item -- the assignment is complete.
PushWriteEnd ==
    /\ pPc = "writing"
    /\ rbBuffer' = [rbBuffer EXCEPT ![pHead] = pItem]
    /\ pPc' = "store_head"
    /\ UNCHANGED <<rbHead, rbTail, rbRet, rbItems, rbPushes, rbPops, pItem,
                   pHead, pSeen, pRet, cPc, cTail, cSeen, cItem, cRaced, cRet,
                   spPushed, spPopped, szVars,
                   notSpsc>>

\* push: head_.store(nextHead, release); return true;
PushStoreHead ==
    /\ pPc = "store_head"
    /\ rbHead' = (pHead + 1) % (Size + 1)
    /\ rbPushes' = rbPushes + 1
    /\ rbItems' = Append(rbItems, pItem)
    /\ spPushed' = Append(spPushed, pItem)
    /\ pRet' = [op |-> "push", ok |-> TRUE, item |-> pItem]
    /\ pPc' = "idle"
    /\ UNCHANGED <<rbBuffer, rbTail, rbRet, rbPops, pItem, pHead, pSeen, cPc,
                   cTail, cSeen, cItem, cRaced, cRet, spPopped, szVars,
                   notSpsc>>

(* ---- the consumer: pop ---- *)

\* pop: tail = tail_.load(relaxed) -- the consumer's own index.
PopLoadTail ==
    /\ cPc = "idle"
    /\ cTail' = rbTail
    /\ cPc' = "load_head"
    /\ UNCHANGED <<rbVars, pPc, pItem, pHead, pSeen, pRet, cSeen, cItem, cRaced,
                   cRet, spPushed, spPopped, szVars,
                   notSpsc>>

\* pop: if (tail == head_.load(acquire)) return false;
PopLoadHead ==
    /\ cPc = "load_head"
    /\ \E n \in cSeen..rbPushes :
          /\ cSeen' = n
          /\ IF cTail = IndexAfter(n)
             THEN /\ cRet' = [op |-> "pop", ok |-> FALSE, item |-> 0]
                  /\ cPc' = "idle"
             ELSE /\ cPc' = "read"
                  /\ UNCHANGED cRet
    /\ UNCHANGED <<rbVars, pPc, pItem, pHead, pSeen, pRet, cTail, cItem, cRaced,
                   spPushed, spPopped, szVars,
                   notSpsc>>

\* pop: item = buffer_[tail] -- the read begins.
PopReadBegin ==
    /\ cPc = "read"
    /\ cPc' = "reading"
    /\ cRaced' = (pPc = "writing" /\ pHead = cTail)
    /\ UNCHANGED <<rbVars, pPc, pItem, pHead, pSeen, pRet, cTail, cSeen, cItem,
                   cRet, spPushed, spPopped, szVars,
                   notSpsc>>

\* pop: item = buffer_[tail] -- the read is complete.  A read that met a
\* write of the same slot is a data race: it may have obtained anything.
PopReadEnd ==
    /\ cPc = "reading"
    /\ cItem' \in IF cRaced \/ SlotRace THEN Items \cup {0}
                  ELSE {rbBuffer[cTail]}
    /\ cPc' = "store_tail"
    /\ UNCHANGED <<rbVars, pPc, pItem, pHead, pSeen, pRet, cTail, cSeen, cRaced,
                   cRet, spPushed, spPopped, szVars,
                   notSpsc>>

\* pop: tail_.store((tail + 1) % (Size + 1), release); return true;
PopStoreTail ==
    /\ cPc = "store_tail"
    /\ rbTail' = (cTail + 1) % (Size + 1)
    /\ rbPops' = rbPops + 1
    /\ rbItems' = IF rbItems = <<>> THEN <<>> ELSE Tail(rbItems)
    /\ spPopped' = Append(spPopped, cItem)
    /\ cRet' = [op |-> "pop", ok |-> TRUE, item |-> cItem]
    /\ cPc' = "idle"
    /\ UNCHANGED <<rbBuffer, rbHead, rbRet, rbPushes, pPc, pItem, pHead, pSeen,
                   pRet, cTail, cSeen, cItem, cRaced, spPushed,
                   szVars, notSpsc>>

(* ---- a thread calling size() ---- *)

\* Faulty variant: size() subtracts the indices whatever their order.
SizeOf_NoWrapCase(h, t) == h - t

\* size(): if (h >= t) return h - t; return (Size + 1) - (t - h);
SizeOf(h, t) == IF h >= t THEN h - t ELSE (Size + 1) - (t - h)

\* size(): h = head_.load(acquire).  The load may return any value head_
\* has held.
SizeLoadHead ==
    /\ sPc = "idle"
    /\ \E n \in 0..rbPushes : sHead' = IndexAfter(n)
    /\ sMark' = <<rbPushes, rbPops>>
    /\ sPc' = "load_tail"
    /\ UNCHANGED <<rbVars, pPc, pItem, pHead, pSeen, pRet, cPc, cTail, cSeen,
                   cItem, cRaced, cRet, spPushed, spPopped, sRet, notSpsc>>

\* size(): t = tail_.load(acquire), which may return any value tail_ has
\* held; the result is computed from h and t and returned, and the locals
\* of the call are gone.
SizeLoadTail ==
    /\ sPc = "load_tail"
    /\ \E n \in 0..rbPops :
          sRet' = [op |-> "size", item |-> SizeOf(sHead, IndexAfter(n)),
                   wrapped |-> sHead < IndexAfter(n),
                   raced |-> rbPushes > sMark[1] /\ rbPops > sMark[2]]
    /\ sPc' = "idle" /\ sHead' = 0 /\ sMark' = <<0, 0>>
    /\ UNCHANGED <<rbVars, pPc, pItem, pHead, pSeen, pRet, cPc, cTail, cSeen,
                   cItem, cRaced, cRet, spPushed, spPopped, notSpsc>>

SpscNext ==
    \/ \E item \in Items : PushLoadHead(item)
    \/ PushLoadTail \/ PushWriteBegin \/ PushWriteEnd \/ PushStoreHead
    \/ PopLoadTail \/ PopLoadHead \/ PopReadBegin \/ PopReadEnd
    \/ PopStoreTail
    \/ SizeLoadHead \/ SizeLoadTail

SpscSpec == SpscInit /\ [][SpscNext]_vars

\* The slots holding items that were pushed and not yet popped.
UnpoppedSlots == {(rbTail + d) % (Size + 1) : d \in 0..(Len(rbItems) - 1)}

(* C21: RingBuffer SPSC correctness.  With one producer and one consumer,  *)
(* under every interleaving of their index loads, slot accesses and index  *)
(* stores: the items popped so far are the first of the items pushed, in   *)
(* push order, and the others are still held (none lost, none twice); the  *)
(* consumer never reads a slot while it is being written; and the slot the *)
(* producer writes is never one that holds an unpopped item.               *)
C21_SpscFifo ==
    /\ spPushed = spPopped \o rbItems
    /\ Len(spPopped) = rbPops /\ Len(spPushed) = rbPushes
    /\ ~SlotRace /\ ~cRaced
    /\ (pPc \in {"write", "writing"}) => (pHead \notin UnpoppedSlots)
    /\ (cPc = "store_tail") => (rbItems # <<>> /\ cItem = Head(rbItems))
    /\ cRet.ok /\ cRet.op = "pop" => cRet.item = spPopped[Len(spPopped)]

\* The producer is writing a slot it has used before while the consumer is
\* reading another slot.
C21_Witness ==
    /\ pPc = "writing" /\ cPc = "reading" /\ rbPushes > Size
    /\ pHead # cTail

---------------------------------------------------------------------------
(* PoolSpec: one ThreadPool.  The owning thread constructs it with n >= 1   *)
(* workers, calls enqueue some times and may then destroy it.  Each worker  *)
(* runs the loop of the constructor's lambda.  Taking queueMutex_, the      *)
(* wait on condition_, the notifications, running a task and storing its   *)
(* result in the shared state of its future are separate steps.             *)

MaxWorkers == 2    \* worker threads of the pool
MaxTasks   == 3    \* enqueue calls made in PoolSpec

notPool == <<nodeVars, walVars, replVars, ringVars, kvVars, rbVars, spVars>>

WorkerNames == <<"w1", "w2", "w3", "w4">>

\* The worker threads of the pool.
Workers == DOMAIN workerPc

TaskIds == 1..MaxTasks

\* What a submitted function does when called.
TaskKinds == {"returns", "throws"}

\* The shared state of a future: not created, not ready, or ready with the
\* value or the exception of the task.
Unused  == [state |-> "unused", val |-> 0]
Pending == [state |-> "pending", val |-> 0]

\* What std::packaged_task stores for task t: the value its function
\* returned or the exception it threw.
Outcome(t) ==
    [state |-> IF taskKind[t] = "throws" THEN "exception" ELSE "value",
     val |-> t]

Ready(t) == future[t].state \in {"value", "exception"}

\* ThreadPool(numThreads): stop_(false), the workers are started.
PoolInit ==
    /\ tasks = <<>> /\ tpStop = FALSE /\ queueMutex = "none" /\ waiting = {}
    /\ \E n \in 1..MaxWorkers :
          /\ workerPc = [w \in {WorkerNames[i] : i \in 1..n} |-> "lock"]
          /\ workerTask = [w \in {WorkerNames[i] : i \in 1..n} |-> 0]
    /\ future = [t \in TaskIds |-> Unused]
    /\ taskKind = [t \in TaskIds |-> "returns"]
    /\ runs = [t \in TaskIds |-> <<>>]
    /\ deliveries = [t \in TaskIds |-> 0]
    /\ ownerPc = "idle" /\ ownerTask = 0 /\ enqueued = 0 /\ poolAlive = TRUE
    /\ NodeOff /\ WalOff /\ ReplOff /\ RingOff /\ KvOff /\ RbOff /\ SpOff

(* ---- a worker thread ---- *)

\* std::unique_lock<std::mutex> lock(queueMutex_)
WorkerLock(w) ==
    /\ poolAlive /\ workerPc[w] = "lock" /\ queueMutex = "none"
    /\ queueMutex' = w
    /\ workerPc' = [workerPc EXCEPT ![w] = "wait"]
    /\ UNCHANGED <<tasks, tpStop, waiting, workerTask, future, taskKind, runs,
                   deliveries, ownerPc, ownerTask, enqueued, poolAlive, notPool>>

\* condition_.wait(lock, pred): with the predicate false the mutex is
\* released and the thread blocks, in one atomic step; else wait returns.
WorkerWait(w) ==
    /\ poolAlive /\ workerPc[w] = "wait"
    /\ IF tpStop \/ tasks # <<>>
       THEN /\ workerPc' = [workerPc EXCEPT ![w] = "check"]
            /\ UNCHANGED <<queueMutex, waiting>>
       ELSE /\ workerPc' = [workerPc EXCEPT ![w] = "blocked"]
            /\ queueMutex' = "none"
            /\ waiting' = waiting \cup {w}
    /\ UNCHANGED <<tasks, tpStop, workerTask, future, taskKind, runs,
                   deliveries, ownerPc, ownerTask, enqueued, poolAlive, notPool>>

\* A blocked thread wakes without a notification, as wait may.
WorkerSpuriousWake(w) ==
    /\ poolAlive /\ w \in waiting
    /\ waiting' = waiting \ {w}
    /\ UNCHANGED <<tasks, tpStop, queueMutex, workerPc, workerTask, future,
                   taskKind, runs, deliveries, ownerPc, ownerTask, enqueued,
                   poolAlive, notPool>>

\* A woken thread takes the mutex again and evaluates the predicate again.
WorkerWake(w) ==
    /\ poolAlive /\ workerPc[w] = "blocked" /\ w \notin waiting
    /\ queueMutex = "none"
    /\ queueMutex' = w
    /\ workerPc' = [workerPc EXCEPT ![w] = "wait"]
    /\ UNCHANGED <<tasks, tpStop, waiting, workerTask, future, taskKind, runs,
                   deliveries, ownerPc, ownerTask, enqueued, poolAlive, notPool>>

\* Faulty variant: a worker returns as soon as stop_ is set.
WorkerTake_StopsAtOnce(w) ==
    /\ poolAlive /\ workerPc[w] = "check"
    /\ IF tpStop
       THEN /\ workerPc' = [workerPc EXCEPT ![w] = "exited"]
            /\ UNCHANGED <<tasks, workerTask>>
       ELSE /\ workerTask' = [workerTask EXCEPT ![w] = Head(tasks)]
            /\ tasks' = Tail(tasks)
            /\ workerPc' = [workerPc EXCEPT ![w] = "run"]
    /\ queueMutex' = "none"
    /\ UNCHANGED <<tpStop, waiting, future, taskKind, runs, deliveries,
                   ownerPc, ownerTask, enqueued, poolAlive, notPool>>

\* Faulty variant: the task is taken from the front and left in the queue.
WorkerTake_NoPop(w) ==
    /\ poolAlive /\ workerPc[w] = "check"
    /\ IF tpStop /\ tasks = <<>>
       THEN /\ workerPc' = [workerPc EXCEPT ![w] = "exited"]
            /\ UNCHANGED <<tasks, workerTask>>
       ELSE /\ workerTask' = [workerTask EXCEPT ![w] = Head(tasks)]
            /\ workerPc' = [workerPc EXCEPT ![w] = "run"]
            /\ UNCHANGED tasks
    /\ queueMutex' = "none"
    /\ UNCHANGED <<tpStop, waiting, future, taskKind, runs, deliveries,
                   ownerPc, ownerTask, enqueued, poolAlive, notPool>>

\* if (stop_ && tasks_.empty()) return; task = std::move(tasks_.front());
\* tasks_.pop_front(); -- and the lock goes out of scope.
WorkerTake(w) ==
    /\ poolAlive /\ workerPc[w] = "check"
    /\ IF tpStop /\ tasks = <<>>
       THEN /\ workerPc' = [workerPc EXCEPT ![w] = "exited"]
            /\ UNCHANGED <<tasks, workerTask>>
       ELSE /\ workerTask' = [workerTask EXCEPT ![w] = Head(tasks)]
            /\ tasks' = Tail(tasks)
            /\ workerPc' = [workerPc EXCEPT ![w] = "run"]
    /\ queueMutex' = "none"
    /\ UNCHANGED <<tpStop, waiting, future, taskKind, runs, deliveries,
                   ownerPc, ownerTask, enqueued, poolAlive, notPool>>

\* Faulty variant: the queued function calls the user's function directly,
\* so what it throws leaves the worker thread.
WorkerRun_Uncaught(w) ==
    /\ poolAlive /\ workerPc[w] = "run"
    /\ IF taskKind[workerTask[w]] = "throws"
       THEN /\ poolAlive' = FALSE
            /\ UNCHANGED <<runs, workerPc>>
       ELSE /\ runs' = [runs EXCEPT ![workerTask[w]] = Append(@, w)]
            /\ workerPc' = [workerPc EXCEPT ![w] = "deliver"]
            /\ UNCHANGED poolAlive
    /\ UNCHANGED <<tasks, tpStop, queueMutex, waiting, workerTask, future,
                   taskKind, deliveries, ownerPc, ownerTask, enqueued, notPool>>

\* task(): (*taskPtr)() calls the bound function inside the packaged_task,
\* which catches whatever it throws.  A packaged_task called a second time
\* throws std::future_error, which nothing catches.
WorkerRun(w) ==
    /\ poolAlive /\ workerPc[w] = "run"
    /\ IF runs[workerTask[w]] # <<>>
       THEN /\ poolAlive' = FALSE
            /\ UNCHANGED <<runs, workerPc>>
       ELSE /\ runs' = [runs EXCEPT ![workerTask[w]] = Append(@, w)]
            /\ workerPc' = [workerPc EXCEPT ![w] = "deliver"]
            /\ UNCHANGED poolAlive
    /\ UNCHANGED <<tasks, tpStop, queueMutex, waiting, workerTask, future,
                   taskKind, deliveries, ownerPc, ownerTask, enqueued, notPool>>

\* The packaged_task stores the value or the exception in the shared state
\* and makes it ready; task() returns and the loop starts over.
WorkerDeliver(w) ==
    /\ poolAlive /\ workerPc[w] = "deliver"
    /\ future' = [future EXCEPT ![workerTask[w]] = Outcome(workerTask[w])]
    /\ deliveries' = [deliveries EXCEPT ![workerTask[w]] = @ + 1]
    /\ workerTask' = [workerTask EXCEPT ![w] = 0]
    /\ workerPc' = [workerPc EXCEPT ![w] = "lock"]
    /\ UNCHANGED <<tasks, tpStop, queueMutex, waiting, taskKind, runs, ownerPc,
                   ownerTask, enqueued, poolAlive, notPool>>

(* ---- the owning thread ---- *)

\* enqueue: the packaged_task is made and its future obtained.
EnqueueCall(kind) ==
    /\ poolAlive /\ ownerPc = "idle" /\ enqueued < MaxTasks
    /\ enqueued' = enqueued + 1
    /\ ownerTask' = enqueued + 1
    /\ taskKind' = [taskKind EXCEPT ![enqueued + 1] = kind]
    /\ future' = [future EXCEPT ![enqueued + 1] = Pending]
    /\ ownerPc' = "enq_lock"
    /\ UNCHANGED <<tasks, tpStop, queueMutex, waiting, workerPc, workerTask,
                   runs, deliveries, poolAlive, notPool>>

\* enqueue: std::unique_lock<std::mutex> lock(queueMutex_)
EnqueueLock ==
    /\ poolAlive /\ ownerPc = "enq_lock" /\ queueMutex = "none"
    /\ queueMutex' = "owner"
    /\ ownerPc' = "enq_push"
    /\ UNCHANGED <<tasks, tpStop, waiting, workerPc, workerTask, future,
                   taskKind, runs, deliveries, ownerTask, enqueued, poolAlive,
                   notPool>>

\* enqueue: if (stop_) throw; tasks_.emplace_back(...); the lock is released.
EnqueuePush ==
    /\ poolAlive /\ ownerPc = "enq_push"
    /\ IF tpStop
       THEN /\ ownerPc' = "idle" /\ ownerTask' = 0
            /\ UNCHANGED tasks
       ELSE /\ tasks' = Append(tasks, ownerTask)
            /\ ownerPc' = "enq_notify"
            /\ UNCHANGED ownerTask
    /\ queueMutex' = "none"
    /\ UNCHANGED <<tpStop, waiting, workerPc, workerTask, future, taskKind,
                   runs, deliveries, enqueued, poolAlive, notPool>>

\* Faulty variant: enqueue returns without notifying.
EnqueueNotify_Skipped ==
    /\ poolAlive /\ ownerPc = "enq_notify"
    /\ ownerPc' = "idle" /\ ownerTask' = 0
    /\ UNCHANGED <<tasks, tpStop, queueMutex, waiting, workerPc, workerTask,
                   future, taskKind, runs, deliveries, enqueued, poolAlive,
                   notPool>>

\* enqueue: condition_.notify_one(); return res;
EnqueueNotify ==
    /\ poolAlive /\ ownerPc = "enq_notify"
    /\ IF waiting = {} THEN UNCHANGED waiting
       ELSE \E w \in waiting : waiting' = waiting \ {w}
    /\ ownerPc' = "idle" /\ ownerTask' = 0
    /\ UNCHANGED <<tasks, tpStop, queueMutex, workerPc, workerTask, future,
                   taskKind, runs, deliveries, enqueued, poolAlive, notPool>>

\* The pool goes out of scope: ~ThreadPool is entered.
PoolDtorCall ==
    /\ poolAlive /\ ownerPc = "idle"
    /\ ownerPc' = "dtor_lock"
    /\ UNCHANGED <<tasks, tpStop, queueMutex, waiting, workerPc, workerTask,
                   future, taskKind, runs, deliveries, ownerTask, enqueued,
                   poolAlive, notPool>>

\* ~ThreadPool: std::unique_lock<std::mutex> lock(queueMutex_)
PoolDtorLock ==
    /\ poolAlive /\ ownerPc = "dtor_lock" /\ queueMutex = "none"
    /\ queueMutex' = "owner"
    /\ ownerPc' = "dtor_stop"
    /\ UNCHANGED <<tasks, tpStop, waiting, workerPc, workerTask, future,
                   taskKind, runs, deliveries, ownerTask, enqueued, poolAlive,
                   notPool>>

\* ~ThreadPool: stop_ = true; the lock is released.
PoolDtorStop ==
    /\ poolAlive /\ ownerPc = "dtor_stop"
    /\ tpStop' = TRUE
    /\ queueMutex' = "none"
    /\ ownerPc' = "dtor_notify"
    /\ UNCHANGED <<tasks, waiting, workerPc, workerTask, future, taskKind,
                   runs, deliveries, ownerTask, enqueued, poolAlive, notPool>>

\* ~ThreadPool: condition_.notify_all()
PoolDtorNotifyAll ==
    /\ poolAlive /\ ownerPc = "dtor_notify"
    /\ waiting' = {}
    /\ ownerPc' = "dtor_join"
    /\ UNCHANGED <<tasks, tpStop, queueMutex, workerPc, workerTask, future,
                   taskKind, runs, deliveries, ownerTask, enqueued, poolAlive,
                   notPool>>

\* ~ThreadPool: every worker.join() has returned.
PoolDtorJoin ==
    /\ poolAlive /\ ownerPc = "dtor_join"
    /\ \A w \in Workers : workerPc[w] = "exited"
    /\ ownerPc' = "destroyed"
    /\ UNCHANGED <<tasks, tpStop, queueMutex, waiting, workerPc, workerTask,
                   future, taskKind, runs, deliveries, ownerTask, enqueued,
                   poolAlive, notPool>>

\* The steps of worker w that are its own to take.
WorkerStep(w) ==
    /\ w \in Workers
    /\ \/ WorkerLock(w) \/ WorkerWait(w) \/ WorkerWake(w) \/ WorkerTake(w)
       \/ WorkerRun(w) \/ WorkerDeliver(w)

\* The steps inside enqueue and inside the destructor.
OwnerProgress ==
    \/ EnqueueLock \/ EnqueuePush \/ EnqueueNotify
    \/ PoolDtorLock \/ PoolDtorStop \/ PoolDtorNotifyAll \/ PoolDtorJoin

PoolLiveNext ==
    \/ \E w \in Workers : WorkerLock(w)
    \/ \E w \in Workers : WorkerWait(w)
    \/ \E w \in Workers : WorkerWake(w)
    \/ \E w \in Workers : WorkerTake(w)
    \/ \E w \in Workers : WorkerRun(w)
    \/ \E w \in Workers : WorkerDeliver(w)
    \/ OwnerProgress
    \/ \E kind \in TaskKinds : EnqueueCall(kind)
    \/ PoolDtorCall

PoolNext ==
    \/ PoolLiveNext
    \/ \E w \in Workers : WorkerSpuriousWake(w)

PoolSpec == PoolInit /\ [][PoolNext]_vars

\* Every thread that can take a step of its own eventually takes one; the
\* owner need not call enqueue or destroy the pool, and no blocked thread
\* wakes unless notified.
PoolLiveSpec ==
    /\ PoolInit /\ [][PoolLiveNext]_vars
    /\ \A w \in {WorkerNames[i] : i \in 1..MaxWorkers} : WF_vars(WorkerStep(w))
    /\ WF_vars(OwnerProgress)

\* The handles enqueue has returned or is about to return.
Handles == {t \in TaskIds : future[t] # Unused}

(* C22: WorkerPool results.  The T tasks submitted to a pool of n >= 1     *)
(* workers have T handles, a handle that is ready holds what its own task  *)
(* produced, and every handle eventually becomes ready, with no help from  *)
(* the destructor or from a spurious wakeup.                               *)
C22_EveryHandleResolves ==
    /\ [](Handles = 1..enqueued)
    /\ [](\A t \in TaskIds : Ready(t) => future[t] = Outcome(t))
    /\ \A t \in TaskIds :
          (future[t] = Pending) ~> (future[t] = Outcome(t))

\* All tasks were submitted and have resolved while the pool is alive and
\* was never asked to stop; every worker is blocked in wait again.
C22_Witness ==
    /\ enqueued = MaxTasks /\ \A t \in TaskIds : future[t] = Outcome(t)
    /\ ownerPc = "idle" /\ ~tpStop /\ waiting = Workers
    /\ Cardinality(Workers) = MaxWorkers

\* No worker has a task in hand.
WorkersDone ==
    \A w \in Workers : workerPc[w] = "exited" /\ workerTask[w] = 0

(* C23: WorkerPool graceful shutdown.  A worker leaves its loop only with  *)
(* stop_ set and the queue empty; when the destructor has returned every   *)
(* task that was submitted has been run and its result stored, none is     *)
(* left in the queue or in a worker's hands; and a destructor that was     *)
(* entered eventually returns.                                             *)
C23_GracefulShutdown ==
    /\ [](\A w \in Workers :
             workerPc[w] = "exited" => (tpStop /\ tasks = <<>>))
    /\ [](ownerPc = "destroyed" =>
             /\ WorkersDone /\ tasks = <<>>
             /\ \A t \in 1..enqueued : Ready(t) /\ Len(runs[t]) = 1)
    /\ (ownerPc = "dtor_lock") ~> (ownerPc = "destroyed")

\* The destructor waits in join while two tasks are still queued and a
\* third is being run.
C23_Witness ==
    /\ ownerPc = "dtor_join" /\ tpStop /\ Len(tasks) = 2
    /\ \E w \in Workers : workerPc[w] = "deliver"

\* Some task has thrown, or will throw when run.
SomeTaskThrows ==
    \E f \in TaskIds : future[f] # Unused /\ taskKind[f] = "throws"

(* C24: WorkerPool failure isolation.  What a task throws is stored in     *)
(* the shared state of its own future and never leaves the worker thread:  *)
(* no thread is terminated by it, and every other task submitted before    *)
(* or after a throwing one is still run and yields its own result.         *)
C24_FailureIsolation ==
    /\ [](poolAlive)
    /\ [](\A t \in TaskIds :
             (Ready(t) /\ taskKind[t] = "throws")
                 => future[t] = [state |-> "exception", val |-> t])
    /\ \A t \in TaskIds :
          (SomeTaskThrows /\ future[t] = Pending /\ taskKind[t] = "returns")
              ~> (future[t] = [state |-> "value", val |-> t])

\* A worker ran a task that threw and then ran a later task to its value;
\* a task submitted before the throwing one has its value too.
C24_Witness ==
    /\ taskKind[2] = "throws" /\ future[2].state = "exception"
    /\ future[1].state = "value" /\ future[3].state = "value"
    /\ runs[2] = runs[3] /\ poolAlive

\* The workers that were woken and have not yet taken the mutex again.
Woken == {w \in Workers : workerPc[w] = "blocked" /\ w \notin waiting}

(* C28: WorkerPool runs every submitted task at most once, by one worker,  *)
(* and stores exactly one result or failure for it: a task is never in     *)
(* two workers' hands, nor in a worker's hands and in the queue, nor in    *)
(* the queue twice, whatever number of workers is awake.                   *)
C28_AtMostOnce ==
    \A t \in TaskIds :
        /\ Len(runs[t]) <= 1 /\ deliveries[t] <= 1
        /\ Ready(t) <=> (deliveries[t] = 1)
        /\ deliveries[t] = 1 => Len(runs[t]) = 1
        /\ Cardinality({w \in Workers : workerTask[w] = t})
             + Cardinality({i \in 1..Len(tasks) : tasks[i] = t})
             + Len(runs[t]) - (IF \E w \in Workers :
                                     workerTask[w] = t /\ workerPc[w] = "deliver"
                               THEN 1 ELSE 0)
             <= 1

\* Two workers were woken and compete for the only task in the queue.
C28_Witness ==
    /\ Cardinality(Woken) >= 2 /\ Len(tasks) = 1 /\ queueMutex = "none"

(* C31: RingBuffer bounds.  In every reachable state head_ and tail_ are   *)
(* within 0..Size and the number of items held is within 0..Size; and      *)
(* size() returns a value within 0..Size also when it is called while the  *)
(* producer and the consumer are running and its two index loads are       *)
(* separated by pushes and pops.                                           *)
C31_Bounds ==
    /\ rbHead \in 0..Size /\ rbTail \in 0..Size
    /\ pHead \in 0..Size /\ cTail \in 0..Size /\ sHead \in 0..Size
    /\ Len(rbItems) \in 0..Size
    /\ rbPushes - rbPops \in 0..Size
    /\ sRet.item \in 0..Size

\* size() returned from the wrapped case (h below t) after both a push and
\* a pop completed between its two loads.
C31_Witness ==
    /\ sRet.op = "size" /\ sRet.raced /\ sRet.wrapped

====
